---- MODULE Spec2Model ----
(***************************************************************************)
(* A model of the automata library: the generic configuration-graph      *)
(* runner (automata/runners.py), the finite-state machines and their      *)
(* operations (automata/fsm/fsm.py) and the pushdown-machine runner       *)
(* (automata/pdm/pdm.py).                                                 *)
(*                                                                         *)
(* A State object is modelled by its uid, a natural number; State()       *)
(* returns a uid that no existing state has (state.py:8-11).  A word is   *)
(* a sequence of symbols, a symbol a one-character string, and EPSILON    *)
(* the empty string.  A transition map is a function from keys            *)
(* <<state, symbol>> to sets of states.                                    *)
(***************************************************************************)
EXTENDS Naturals, Integers, Sequences, FiniteSets, TLC

VARIABLES
    machine,    \* the machine the runner was constructed for
    word,       \* the argument of the running call
    mode,       \* which Runner method is running
    pc,         \* "idle", "loop" or "done"
    backlog,    \* Runner.__backlog, a FIFO of <<precursor, config>>
    seen,       \* Runner.__seen, precursor uid -> set of configs
    uid_max,    \* Runner.__uid_max
    best,       \* the local `best` / `matches` of find_last, find_all
    result,     \* what the call returned
    longest,    \* history: the largest stop offset of the accepting
                \* configurations the running call has popped, -1 if none
    calls,      \* history: the number of calls made on the runner
    search,     \* the running search_* call: its method, its argument, the
                \* offset of the loop, its local `best` / `matches` and
                \* what it returned
    A,          \* left operand of a machine operation
    B,          \* right operand of a machine operation
    op,         \* the operation last applied to A (and B)
    R,          \* the machine that operation returned
    next_uid,   \* the uids below next_uid are taken by State objects
    to_dfsm,    \* the running to_dfsm call: where it is and its locals
                \* stack, supersets, transitions and accepting
    pattern,    \* the argument of parse_regex / compile_regex
    parsed,     \* what parse_regex returned or raised
    regex       \* what to_regex returned

runner_vars == <<machine, word, mode, pc, backlog, seen, uid_max, best, result,
                 longest, calls, search>>
ops_vars == <<A, B, op, R, next_uid, to_dfsm>>
regex_vars == <<pattern, parsed, regex>>
vars == <<machine, word, mode, pc, backlog, seen, uid_max, best, result,
          longest, calls, search, A, B, op, R, next_uid, to_dfsm, pattern, parsed,
          regex>>

\* to_dfsm has not been called
NoToDfsm == [at |-> "", stack |-> <<>>, supersets |-> <<>>, transitions |-> <<>>,
             accepting |-> {}, free |-> 0, current |-> <<>>, symbols |-> <<>>,
             order |-> "", descending |-> FALSE]

\* parse_regex has not been called
NoParse == [error |-> "", tree |-> <<>>]

\* no pattern has been given
RegexUnused ==
    /\ pattern = <<>>
    /\ parsed = NoParse
    /\ regex = <<>>

----------------------------------------------------------------------------
(* Bounds of the model *)

MaxStates == 2
MaxEdges == 2
MaxWordLen == 2
MaxOperandEdges == 1
MaxPatternLen == 3
MaxRegexWordLen == 4
MaxRoundTripLen == 3
MaxCalls == 2
MaxWorklistEdges == 4
MaxBuildUid == 6

----------------------------------------------------------------------------
(* Symbols, words and small helpers *)

EPSILON == ""

Letters == {"a", "b"}

Words == UNION {[1..n -> Letters] : n \in 0..MaxWordLen}

StateIds == 0..(MaxStates - 1)

Max(S) == CHOOSE x \in S : \A y \in S : y <= x

Min(S) == CHOOSE x \in S : \A y \in S : x <= y

RECURSIVE SortedSeq(_)
\* the elements of a finite set of uids in ascending order
SortedSeq(S) == IF S = {} THEN <<>> ELSE <<Min(S)>> \o SortedSeq(S \ {Min(S)})

\* every enumeration order of a finite set
Orders(S) == {f \in [1..Cardinality(S) -> S] : \A x \in S : \E i \in DOMAIN f : f[i] = x}

RECURSIVE SubsetsUpTo(_, _)
\* the subsets of S with at most n elements
SubsetsUpTo(S, n) ==
    IF n = 0 THEN {{}}
    ELSE LET smaller == SubsetsUpTo(S, n - 1)
         IN  smaller \cup {E \cup {e} : E \in smaller, e \in S}

Tail1(s) == IF s = <<>> THEN <<>> ELSE Tail(s)

----------------------------------------------------------------------------
(* Machines *)

\* DFSM.__init__: the transition map is stored multi-valued
DFSM(states, alphabet, transitions, initial, accepting) ==
    [kind |-> "DFSM", states |-> states, alphabet |-> alphabet,
     transitions |-> transitions, start |-> initial, accepting |-> accepting]

\* NeFSM.__init__: as DFSM, with the _NeFSMRunner as its runner
NeFSM(states, alphabet, transitions, initial, accepting) ==
    [kind |-> "NFSM", states |-> states, alphabet |-> alphabet,
     transitions |-> transitions, start |-> initial, accepting |-> accepting]

\* PDM.__init__: keys are <<state, symbol, pop>>, values sets of <<state, push>>
PDM(states, alphabet, stack_alphabet, transitions, initial, accepting) ==
    [kind |-> "PDM", states |-> states, alphabet |-> alphabet,
     stack_alphabet |-> stack_alphabet,
     transitions |-> transitions, start |-> initial, accepting |-> accepting]

\* the multi-valued transition map that holds the edges <<q, symbol, r>> of E
TransitionsOf(E) ==
    [k \in {<<e[1], e[2]>> : e \in E} |->
        {e[3] : e \in {x \in E : x[1] = k[1] /\ x[2] = k[2]}}]

\* the letters on the edges of E
LettersOf(E) == {e[2] : e \in E} \ {EPSILON}

\* the edges <<q, symbol, r>> over the given symbols
EdgesOver(symbols) == StateIds \X symbols \X StateIds

\* E has at most one target per <<state, letter>> and no epsilon edge
IsDeterministic(E) ==
    /\ \A e \in E : e[2] # EPSILON
    /\ \A e, f \in E : (e[1] = f[1] /\ e[2] = f[2]) => e = f

\* the nondeterministic machines a caller constructs within the bounds
\* for the runner: edges labelled "a" or EPSILON, words over Letters
NFSMs ==
    {NeFSM(StateIds, Letters, TransitionsOf(E), 0, F) :
        E \in SubsetsUpTo(EdgesOver({"a", EPSILON}), MaxEdges),
        F \in SUBSET StateIds}

\* the deterministic machines a caller constructs within the bounds
DFSMs ==
    {DFSM(StateIds, Letters, TransitionsOf(E), 0, F) :
        E \in {X \in SubsetsUpTo(EdgesOver(Letters), MaxEdges) :
                  IsDeterministic(X)},
        F \in SUBSET StateIds}

StackSymbols == {"Z"}

\* a pushdown transition <<q, symbol, pop, r, push>>
PDMEdges ==
    StateIds \X {"a", EPSILON} \X (StackSymbols \cup {EPSILON})
             \X StateIds \X {<<>>, <<"Z">>}

PDMTransitionsOf(E) ==
    [k \in {<<e[1], e[2], e[3]>> : e \in E} |->
        {<<e[4], e[5]>> : e \in {x \in E : <<x[1], x[2], x[3]>> = k}}]

\* the pushdown machines a caller constructs within the bounds
PDMs ==
    {PDM(StateIds, {"a"}, StackSymbols, PDMTransitionsOf(E), 0, F) :
        E \in SubsetsUpTo(PDMEdges, 1), F \in SubsetsUpTo(StateIds, 1)}

----------------------------------------------------------------------------
(* The runner protocol of the three machine kinds *)

FromBool(flag) == IF flag THEN "ACCEPT" ELSE "REJECT"

\* _DFSMRunner.get_initial_config, _PDMRunner.get_initial_config
GetInitialConfig(M, w) ==
    IF M.kind = "PDM"
    THEN [string |-> w, stack |-> <<>>, state |-> M.start]
    ELSE [string |-> w, state |-> M.start]

\* _DFSMRunner.get_keys
DFSMGetKeys(c) ==
    IF c.string # <<>> THEN << <<c.state, c.string[1]>> >>
    ELSE << <<c.state, EPSILON>> >>

\* _NeFSMRunner.get_keys
NeFSMGetKeys(c) == DFSMGetKeys(c) \o << <<c.state, EPSILON>> >>

\* _PDMRunner.get_keys
PDMGetKeys(c) ==
    << <<c.state, EPSILON, EPSILON>> >>
    \o (IF c.string # <<>>
        THEN << <<c.state, c.string[1], EPSILON>> >>
             \o (IF c.stack # <<>>
                 THEN << <<c.state, c.string[1], c.stack[Len(c.stack)]>> >>
                 ELSE <<>>)
        ELSE <<>>)
    \o (IF c.stack # <<>>
        THEN << <<c.state, EPSILON, c.stack[Len(c.stack)]>> >>
        ELSE <<>>)

GetKeys(M, c) ==
    CASE M.kind = "DFSM" -> DFSMGetKeys(c)
      [] M.kind = "NFSM" -> NeFSMGetKeys(c)
      [] M.kind = "PDM" -> PDMGetKeys(c)

\* _DFSMRunner.get_next_config
DFSMGetNextConfig(c, key, new_state) ==
    [string |-> Tail1(c.string), state |-> new_state]

\* _NeFSMRunner.get_next_config
NeFSMGetNextConfig(c, key, new_state) ==
    IF key[2] = EPSILON THEN [string |-> c.string, state |-> new_state]
    ELSE DFSMGetNextConfig(c, key, new_state)

\* _PDMRunner.get_next_config unpacks the three-element key into two names
\* (pdm.py:49): every call raises ValueError
PDMGetNextConfigRaises(c, key, new_state) == Len(key) # 2

GetNextConfig(M, c, key, new_state) ==
    IF M.kind = "DFSM" THEN DFSMGetNextConfig(c, key, new_state)
    ELSE NeFSMGetNextConfig(c, key, new_state)

\* _DFSMRunner.check_accept
DFSMCheckAccept(M, c) ==
    IF c.string # <<>> THEN "CONTINUE"
    ELSE FromBool(c.state \in M.accepting)

\* a check_accept that rejects at the end of the input without looking for
\* epsilon moves
NeFSMCheckAcceptNoEpsilon(M, c) == DFSMCheckAccept(M, c)

\* _NeFSMRunner.check_accept
NeFSMCheckAccept(M, c) ==
    LET res == DFSMCheckAccept(M, c)
    IN  IF res # "REJECT" THEN res
        ELSE IF <<c.state, EPSILON>> \in DOMAIN M.transitions THEN "CONTINUE"
        ELSE "REJECT"

\* _PDMRunner.check_accept
PDMCheckAccept(M, c) ==
    IF c.string = <<>> /\ c.stack = <<>> /\ c.state \in M.accepting
    THEN "ACCEPT" ELSE "CONTINUE"

CheckAccept(M, c) ==
    CASE M.kind = "DFSM" -> DFSMCheckAccept(M, c)
      [] M.kind = "NFSM" -> NeFSMCheckAccept(M, c)
      [] M.kind = "PDM" -> PDMCheckAccept(M, c)

\* _DFSMRunner.check_accept_sliding, _PDMRunner.check_accept_sliding
CheckAcceptSliding(M, c) ==
    IF M.kind = "PDM" THEN PDMCheckAccept(M, c)
    ELSE IF c.state \in M.accepting THEN "ACCEPT" ELSE "CONTINUE"

\* _DFSMRunner.make_match, _PDMRunner.make_match
MakeMatch(w, c) ==
    LET stop == Len(w) - Len(c.string)
    IN  [start |-> 0, stop |-> stop, string |-> SubSeq(w, 1, stop)]

----------------------------------------------------------------------------
(* The generic runner *)

\* Runner.__yield_states: the <<key, state>> pairs of one key, in each order
\* in which the target set may be enumerated; a missing key yields nothing
YieldStates(M, key) ==
    IF key \in DOMAIN M.transitions
    THEN {[i \in DOMAIN o |-> <<key, o[i]>>] : o \in Orders(M.transitions[key])}
    ELSE {<<>>}

RECURSIVE NextStatesOfKeys(_, _)
NextStatesOfKeys(M, keys) ==
    IF keys = <<>> THEN {<<>>}
    ELSE {x \o y : x \in YieldStates(M, Head(keys)),
                   y \in NextStatesOfKeys(M, Tail(keys))}

\* Runner.__next_states: every sequence of <<key, state>> it may yield
NextStates(M, c) == NextStatesOfKeys(M, GetKeys(M, c))

\* a read of the defaultdict Runner.__seen
SeenAt(sn, precursor) == IF precursor \in DOMAIN sn THEN sn[precursor] ELSE {}

\* a push that neither looks at the seen-set of the lineage nor records the
\* configuration in one
PushToBacklogUnseen(rs, config, precursor) ==
    [rs EXCEPT !.backlog = Append(rs.backlog, <<precursor, config>>)]

\* Runner.__push_to_backlog on the run state rs = [backlog, seen, uid_max]
PushToBacklog(rs, config, precursor) ==
    LET old == SeenAt(rs.seen, precursor)
        touched == (precursor :> old) @@ rs.seen
    IN  IF config \notin old
        THEN [backlog |-> Append(rs.backlog, <<rs.uid_max, config>>),
              seen |-> (rs.uid_max :> (old \cup {config})) @@ touched,
              uid_max |-> rs.uid_max + 1]
        ELSE [rs EXCEPT !.seen = touched]

RECURSIVE AdvanceStates(_, _, _, _, _)
\* Runner.__advance_states over the yielded sequence next
AdvanceStates(M, rs, current, precursor, next) ==
    IF next = <<>> THEN rs
    ELSE LET key == Head(next)[1]
             new_state == Head(next)[2]
             new == GetNextConfig(M, current, key, new_state)
         IN  AdvanceStates(M, PushToBacklog(rs, new, precursor),
                           current, precursor, Tail(next))

\* Runner.__advance_states raises when get_next_config does
AdvanceRaises(M, current, next) ==
    /\ M.kind = "PDM"
    /\ \E i \in DOMAIN next : PDMGetNextConfigRaises(current, next[i][1], next[i][2])

\* a __setup_run that puts the initial configuration in front of the backlog
\* the last call left behind
SetupRunKeepsBacklog(M, w) ==
    [backlog |-> << <<0, GetInitialConfig(M, w)>> >> \o backlog,
     seen |-> <<>>,
     uid_max |-> 1]

\* Runner.__setup_run
SetupRun(M, w) ==
    [backlog |-> << <<0, GetInitialConfig(M, w)>> >>,
     seen |-> <<>>,
     uid_max |-> 1]


\* the outcomes of Runner.__advance_states from the run state rs: one per
\* enumeration order of the target sets
Advance(M, rs, current, precursor) ==
    {IF AdvanceRaises(M, current, next)
     THEN [raised |-> TRUE, rs |-> rs]
     ELSE [raised |-> FALSE,
           rs |-> AdvanceStates(M, rs, current, precursor, next)] :
        next \in NextStates(M, current)}

Pending == [tag |-> "pending", verdict |-> "", matches |-> <<>>]
Verdict(v) == [tag |-> "verdict", verdict |-> v, matches |-> <<>>]
Raised(e) == [tag |-> e, verdict |-> "", matches |-> <<>>]
Found(ms) == [tag |-> "matches", verdict |-> "", matches |-> ms]

\* no search_* call has been made
NoSearch ==
    [method |-> "", string |-> <<>>, offset |-> 0, best |-> <<>>,
     result |-> Pending]

\* a machine that stands for "no machine" where a variable is not in use
NoMachine == NeFSM({}, {}, <<>>, 0, {})

\* the run state the step works on, after the popleft
Popped == [backlog |-> Tail(backlog), seen |-> seen, uid_max |-> uid_max]

\* the call returns r
Return(r) ==
    /\ pc' = "done"
    /\ result' = r
    /\ backlog' = Tail1(backlog)
    /\ UNCHANGED <<seen, uid_max>>

\* the loop goes on from the run state o.rs, or the call ends in the
\* exception get_next_config raised
Continue(o) ==
    IF o.raised
    THEN /\ pc' = "done"
         /\ result' = Raised("ValueError")
         /\ backlog' = o.rs.backlog
         /\ UNCHANGED <<seen, uid_max>>
    ELSE /\ backlog' = o.rs.backlog
         /\ seen' = o.rs.seen
         /\ uid_max' = o.rs.uid_max
         /\ UNCHANGED <<pc, result>>

\* a method of the runner is called with the word: Runner.__setup_run
Call(m) ==
    /\ pc = "idle"
    /\ mode' = m
    /\ pc' = "loop"
    /\ backlog' = SetupRun(machine, word).backlog
    /\ seen' = SetupRun(machine, word).seen
    /\ uid_max' = SetupRun(machine, word).uid_max
    /\ best' = <<>>
    /\ longest' = -1
    /\ calls' = calls + 1
    /\ UNCHANGED <<machine, word, result, search>>
    /\ UNCHANGED ops_vars
    /\ UNCHANGED regex_vars

RunWithCall ==
    /\ pc = "idle"
    /\ Call("run_with")

FindLastCall ==
    /\ pc = "idle"
    /\ Call("find_last")

FindFirstCall ==
    /\ pc = "idle"
    /\ Call("find_first")

FindAllCall ==
    /\ pc = "idle"
    /\ Call("find_all")

\* one iteration of the loop of Runner.run_with
RunWithStep ==
    /\ pc = "loop" /\ mode = "run_with" /\ backlog # <<>>
    /\ LET precursor == Head(backlog)[1]
           current == Head(backlog)[2]
           state == CheckAccept(machine, current)
       IN  IF state # "CONTINUE"
           THEN IF state = "ACCEPT"
                THEN Return(Verdict(state))
                ELSE /\ backlog' = Tail(backlog)
                     /\ UNCHANGED <<pc, result, seen, uid_max>>
           ELSE \E o \in Advance(machine, Popped, current, precursor) :
                    Continue(o)
    /\ UNCHANGED <<machine, word, mode, best, longest, calls, search>>
    /\ UNCHANGED ops_vars
    /\ UNCHANGED regex_vars

\* Runner.run_with leaves the loop: the backlog is empty
RunWithReturn ==
    /\ pc = "loop" /\ mode = "run_with" /\ backlog = <<>>
    /\ Return(Verdict("REJECT"))
    /\ UNCHANGED <<machine, word, mode, best, longest, calls, search>>
    /\ UNCHANGED ops_vars
    /\ UNCHANGED regex_vars

\* one iteration of the loop of Runner.find_last
FindLastStep ==
    /\ pc = "loop" /\ mode = "find_last" /\ backlog # <<>>
    /\ LET precursor == Head(backlog)[1]
           current == Head(backlog)[2]
           state == CheckAcceptSliding(machine, current)
           end_check == CheckAccept(machine, current)
           match == <<MakeMatch(word, current)>>
       IN  IF end_check # "CONTINUE"
           THEN /\ best' = IF end_check = "ACCEPT" THEN match ELSE best
                /\ Return(Found(best'))
           ELSE /\ best' = IF state = "ACCEPT" THEN match ELSE best
                /\ \E o \in Advance(machine, Popped, current, precursor) :
                       Continue(o)
    /\ longest' = IF "ACCEPT" \in {CheckAcceptSliding(machine, Head(backlog)[2]),
                                   CheckAccept(machine, Head(backlog)[2])}
                  THEN Max({longest, MakeMatch(word, Head(backlog)[2]).stop})
                  ELSE longest
    /\ UNCHANGED <<machine, word, mode, calls, search>>
    /\ UNCHANGED ops_vars
    /\ UNCHANGED regex_vars

\* Runner.find_last leaves the loop with an empty backlog
FindLastReturn ==
    /\ pc = "loop" /\ mode = "find_last" /\ backlog = <<>>
    /\ Return(Found(best))
    /\ UNCHANGED <<machine, word, mode, best, longest, calls, search>>
    /\ UNCHANGED ops_vars
    /\ UNCHANGED regex_vars

\* one iteration of the loop of Runner.find_first
FindFirstStep ==
    /\ pc = "loop" /\ mode = "find_first" /\ backlog # <<>>
    /\ LET precursor == Head(backlog)[1]
           current == Head(backlog)[2]
           state == CheckAcceptSliding(machine, current)
           end_check == CheckAccept(machine, current)
           match == <<MakeMatch(word, current)>>
       IN  IF end_check # "CONTINUE"
           THEN Return(Found(IF end_check = "ACCEPT" THEN match ELSE <<>>))
           ELSE IF state = "ACCEPT"
                THEN Return(Found(match))
                ELSE \E o \in Advance(machine, Popped, current, precursor) :
                         Continue(o)
    /\ UNCHANGED <<machine, word, mode, best, longest, calls, search>>
    /\ UNCHANGED ops_vars
    /\ UNCHANGED regex_vars

\* Runner.find_first leaves the loop with an empty backlog: it returns None
FindFirstReturn ==
    /\ pc = "loop" /\ mode = "find_first" /\ backlog = <<>>
    /\ Return(Found(<<>>))
    /\ UNCHANGED <<machine, word, mode, best, longest, calls, search>>
    /\ UNCHANGED ops_vars
    /\ UNCHANGED regex_vars

\* one iteration of the loop of Runner.find_all
FindAllStep ==
    /\ pc = "loop" /\ mode = "find_all" /\ backlog # <<>>
    /\ LET precursor == Head(backlog)[1]
           current == Head(backlog)[2]
           state == CheckAcceptSliding(machine, current)
           end_check == CheckAccept(machine, current)
           match == <<MakeMatch(word, current)>>
       IN  IF end_check # "CONTINUE"
           THEN /\ best' = IF end_check = "ACCEPT" THEN best \o match ELSE best
                /\ Return(Found(best'))
           ELSE /\ best' = IF state = "ACCEPT" THEN best \o match ELSE best
                /\ \E o \in Advance(machine, Popped, current, precursor) :
                       Continue(o)
    /\ UNCHANGED <<machine, word, mode, longest, calls, search>>
    /\ UNCHANGED ops_vars
    /\ UNCHANGED regex_vars

\* Runner.find_all leaves the loop with an empty backlog
FindAllReturn ==
    /\ pc = "loop" /\ mode = "find_all" /\ backlog = <<>>
    /\ Return(Found(best))
    /\ UNCHANGED <<machine, word, mode, best, longest, calls, search>>
    /\ UNCHANGED ops_vars
    /\ UNCHANGED regex_vars

\* a runner has been constructed for a machine (Runner.__init__) and a word
\* is at hand
InitRun ==
    /\ machine \in NFSMs \cup DFSMs \cup PDMs
    /\ word \in Words
    /\ mode = ""
    /\ pc = "idle"
    /\ backlog = <<>>
    /\ seen = <<>>
    /\ uid_max = 0
    /\ best = <<>>
    /\ result = Pending
    /\ longest = -1
    /\ calls = 0
    /\ search = NoSearch
    /\ A = NoMachine /\ B = NoMachine /\ R = NoMachine
    /\ op = ""
    /\ next_uid = 0
    /\ to_dfsm = NoToDfsm
    /\ RegexUnused

NextRun ==
    \/ RunWithCall \/ RunWithStep \/ RunWithReturn
    \/ FindLastCall \/ FindLastStep \/ FindLastReturn
    \/ FindFirstCall \/ FindFirstStep \/ FindFirstReturn
    \/ FindAllCall \/ FindAllStep \/ FindAllReturn

SpecRun == InitRun /\ [][NextRun]_vars

\* the methods of the runner
Methods == {"run_with", "find_last", "find_first", "find_all"}

\* a method is called with a word on a runner whose last call has returned:
\* Runner.__setup_run
CallAgain ==
    /\ pc = "done"
    /\ calls < MaxCalls
    /\ \E m \in Methods, w \in Words :
           /\ mode' = m
           /\ word' = w
           /\ backlog' = SetupRun(machine, w).backlog
           /\ seen' = SetupRun(machine, w).seen
           /\ uid_max' = SetupRun(machine, w).uid_max
    /\ pc' = "loop"
    /\ best' = <<>>
    /\ result' = Pending
    /\ longest' = -1
    /\ calls' = calls + 1
    /\ UNCHANGED <<machine, search>>
    /\ UNCHANGED ops_vars
    /\ UNCHANGED regex_vars

NextRerun == NextRun \/ CallAgain

\* the calls made one after the other on the runner of one machine
SpecRerun == InitRun /\ [][NextRerun]_vars

----------------------------------------------------------------------------
(* The search_* methods of the runner: a find_* call at each offset *)

\* a __make_match that moves the start of the match only
MakeMatchAtOffsetStartOnly(match, offset, w) ==
    [start |-> match.start + offset, stop |-> match.stop, string |-> w]

\* Runner.__make_match
MakeMatchAtOffset(match, offset, w) ==
    [start |-> match.start + offset, stop |-> match.stop + offset, string |-> w]

\* the find_* method each search_* method calls
Finder(method) ==
    CASE method = "search_first" -> "find_first"
      [] method \in {"search_last", "search_longest", "search_shortest"} ->
             "find_last"
      [] method = "search_all" -> "find_all"

\* a for loop over range(len(string)) in every search_* method, search_last
\* included
OffsetsAscending(method, string) == [i \in 1..Len(string) |-> i - 1]

\* the offsets of the for loop of a search_* method, in its order:
\* range(len(string)), reversed for search_last
Offsets(method, string) ==
    [i \in 1..Len(string) |->
        IF method = "search_last" THEN Len(string) - i ELSE i - 1]

\* the local `best` / `matches` of a search_* method after the find_* call at
\* offset x returned the matches found
Merged(s, x, found) ==
    LET moved == [i \in DOMAIN found |-> MakeMatchAtOffset(found[i], x, s.string)]
        len(m) == m.stop - m.start
    IN  CASE s.method \in {"search_first", "search_last", "search_all"} ->
                 s.best \o moved
          [] s.method = "search_longest" ->
                 IF moved = <<>> THEN s.best
                 ELSE IF s.best = <<>> THEN moved
                 ELSE IF len(s.best[1]) >= len(moved[1]) THEN s.best ELSE moved
          [] s.method = "search_shortest" ->
                 IF moved = <<>> THEN s.best
                 ELSE IF s.best = <<>> THEN moved
                 ELSE IF len(s.best[1]) <= len(moved[1]) THEN s.best ELSE moved

\* the for loop of a search_* method calls its find_* method on the rest of
\* the string from the i-th offset of the loop: Runner.__setup_run
FindAt(s, i) ==
    LET x == Offsets(s.method, s.string)[i]
        rest == SubSeq(s.string, x + 1, Len(s.string))
    IN  /\ word' = rest
        /\ mode' = Finder(s.method)
        /\ backlog' = SetupRun(machine, rest).backlog
        /\ seen' = SetupRun(machine, rest).seen
        /\ uid_max' = SetupRun(machine, rest).uid_max
        /\ pc' = "loop"
        /\ best' = <<>>
        /\ result' = Pending
        /\ longest' = -1
        /\ calls' = calls + 1

\* a search_* method is called with the word: it returns at once when the
\* word is empty, and calls its find_* method at the first offset otherwise
SearchCall ==
    /\ pc = "idle" /\ search = NoSearch
    /\ \E method \in {"search_first", "search_last", "search_longest",
                      "search_shortest", "search_all"} :
           LET s == [method |-> method, string |-> word, offset |-> 1,
                     best |-> <<>>, result |-> Pending]
           IN  IF word = <<>>
               THEN /\ search' = [s EXCEPT !.result = Found(<<>>)]
                    /\ UNCHANGED <<word, mode, pc, backlog, seen, uid_max,
                                   best, result, longest, calls>>
               ELSE /\ search' = s
                    /\ FindAt(s, 1)
    /\ UNCHANGED machine
    /\ UNCHANGED ops_vars
    /\ UNCHANGED regex_vars

\* the find_* call of a search_* method has returned: search_first and
\* search_last return the first match found, the others merge what was found
\* and go on; the loop calls find_* at the next offset or the method returns.
\* An exception of the find_* call leaves the search_* method.
SearchStep ==
    /\ search.method # "" /\ search.result = Pending
    /\ pc = "done"
    /\ LET x == Offsets(search.method, search.string)[search.offset]
           found == result.matches
           merged == Merged(search, x, found)
           returns ==
               \/ search.offset = Len(search.string)
               \/ /\ search.method \in {"search_first", "search_last"}
                  /\ found # <<>>
       IN  IF result.tag # "matches"
           THEN /\ search' = [search EXCEPT !.result = result]
                /\ UNCHANGED <<word, mode, pc, backlog, seen, uid_max, best,
                               result, longest, calls>>
           ELSE IF returns
           THEN /\ search' = [search EXCEPT !.best = merged,
                                            !.result = Found(merged)]
                /\ UNCHANGED <<word, mode, pc, backlog, seen, uid_max, best,
                               result, longest, calls>>
           ELSE /\ search' = [search EXCEPT !.best = merged,
                                            !.offset = @ + 1]
                /\ FindAt(search, search.offset + 1)
    /\ UNCHANGED machine
    /\ UNCHANGED ops_vars
    /\ UNCHANGED regex_vars

NextSearch == NextRun \/ SearchCall \/ SearchStep

\* the find_* and the search_* methods called on the runner of a machine
SpecSearch == InitRun /\ [][NextSearch]_vars


----------------------------------------------------------------------------
(* DFSM.run, as a function of the machine and the word *)

RECURSIVE InOrder(_)
\* one enumeration order of a finite set
InOrder(S) ==
    IF S = {} THEN <<>>
    ELSE LET x == CHOOSE y \in S : TRUE IN <<x>> \o InOrder(S \ {x})

RECURSIVE YieldStatesInOrder(_, _)
\* Runner.__yield_states over the keys, every target set in that one order
YieldStatesInOrder(M, keys) ==
    IF keys = <<>> THEN <<>>
    ELSE LET key == Head(keys)
             o == IF key \in DOMAIN M.transitions
                  THEN InOrder(M.transitions[key]) ELSE <<>>
         IN  [i \in DOMAIN o |-> <<key, o[i]>>]
                 \o YieldStatesInOrder(M, Tail(keys))

\* the sequence Runner.__next_states yields when every target set is
\* enumerated in one fixed order
NextStatesInOrder(M, c) == YieldStatesInOrder(M, GetKeys(M, c))

RECURSIVE RunLoop(_, _)
\* the loop of Runner.run_with from the run state rs
RunLoop(M, rs) ==
    IF rs.backlog = <<>> THEN "REJECT"
    ELSE LET precursor == Head(rs.backlog)[1]
             current == Head(rs.backlog)[2]
             state == CheckAccept(M, current)
             popped == [rs EXCEPT !.backlog = Tail(rs.backlog)]
         IN  IF state # "CONTINUE"
             THEN IF state = "ACCEPT" THEN state ELSE RunLoop(M, popped)
             ELSE RunLoop(M, AdvanceStates(M, popped, current, precursor,
                                           NextStatesInOrder(M, current)))

\* Runner.run_with
RunWith(M, w) == RunLoop(M, SetupRun(M, w))

\* DFSM.run
Run(M, w) == RunWith(M, w) = "ACCEPT"

----------------------------------------------------------------------------
(* Operations on machines.  An operation that creates State objects takes  *)
(* the first free uid n and gives the states it creates the uids from n on. *)

TheOne(S) == CHOOSE x \in S : TRUE

\* the first uid that is free once the states of M exist
UidAfter(M, n) == Max({n} \cup {q + 1 : q \in M.states})

\* the machine M as an instance of the class named kind (self.__class__)
Class(kind, states, alphabet, transitions, initial, accepting) ==
    IF kind = "DFSM" THEN DFSM(states, alphabet, transitions, initial, accepting)
    ELSE NeFSM(states, alphabet, transitions, initial, accepting)

\* NeFSM.from_dfsm
FromDfsm(M) == NeFSM(M.states, M.alphabet, M.transitions, M.start, M.accepting)

\* DFSM._get_all_prev_states
GetAllPrevStates(M, state) ==
    {k[1] : k \in {j \in DOMAIN M.transitions : state \in M.transitions[j]}}

\* DFSM._get_all_next_states
GetAllNextStates(M, state) ==
    UNION {M.transitions[k] :
             k \in {<<state, char>> : char \in M.alphabet} \cap DOMAIN M.transitions}

\* NeFSM._update_state
UpdateState(transitions, key, targets) ==
    IF key \in DOMAIN transitions
    THEN [transitions EXCEPT ![key] = @ \cup targets]
    ELSE (key :> targets) @@ transitions

\* {**a, **b}: the entries of b replace those of a on the same key
MergeMaps(a, b) ==
    [k \in DOMAIN a \cup DOMAIN b |-> IF k \in DOMAIN b THEN b[k] ELSE a[k]]

\* an _accepting_states_in_normal_form that finds no machine in normal form
AcceptingStatesNeverInNormalForm(M) == FALSE

\* NeFSM._accepting_states_in_normal_form
AcceptingStatesInNormalForm(M) ==
    /\ Cardinality(M.accepting) = 1
    /\ \A symbol \in M.alphabet \cup {EPSILON} :
           <<TheOne(M.accepting), symbol>> \notin DOMAIN M.transitions

RECURSIVE LinkAccepting(_, _, _)
\* the loop of to_normal_form over the accepting states
LinkAccepting(transitions, states, accept) ==
    IF states = {} THEN transitions
    ELSE LET state == TheOne(states)
         IN  LinkAccepting(UpdateState(transitions, <<state, EPSILON>>, {accept}),
                           states \ {state}, accept)

\* a to_normal_form that leaves the state set as it was
ToNormalFormOnOwnStates(M, n) ==
    LET prev == GetAllPrevStates(M, M.start)
        start == IF prev # {} THEN n ELSE M.start
        free == IF prev # {} THEN n + 1 ELSE n
        t1 == IF prev # {}
              THEN [k \in DOMAIN M.transitions \cup {<<start, EPSILON>>} |->
                       IF k = <<start, EPSILON>> THEN {M.start}
                       ELSE M.transitions[k]]
              ELSE M.transitions
        normal == AcceptingStatesInNormalForm(M)
        accept == IF ~normal THEN free ELSE TheOne(M.accepting)
        t2 == IF ~normal THEN LinkAccepting(t1, M.accepting, accept) ELSE t1
    IN  Class(M.kind, M.states, M.alphabet, t2, start, {accept})

\* NeFSM.to_normal_form
ToNormalForm(M, n) ==
    LET prev == GetAllPrevStates(M, M.start)
        start == IF prev # {} THEN n ELSE M.start
        free == IF prev # {} THEN n + 1 ELSE n
        t1 == IF prev # {}
              THEN [k \in DOMAIN M.transitions \cup {<<start, EPSILON>>} |->
                       IF k = <<start, EPSILON>> THEN {M.start}
                       ELSE M.transitions[k]]
              ELSE M.transitions
        normal == AcceptingStatesInNormalForm(M)
        accept == IF ~normal THEN free ELSE TheOne(M.accepting)
        t2 == IF ~normal THEN LinkAccepting(t1, M.accepting, accept) ELSE t1
    IN  Class(M.kind, M.states \cup {start, accept}, M.alphabet, t2,
              start, {accept})

\* NeFSM.concat
Concat(self, other, n) ==
    LET a == ToNormalForm(self, n)
        b == ToNormalForm(other, UidAfter(a, n))
        a_accept == TheOne(a.accepting)
        b_accept == TheOne(b.accepting)
        transitions == UpdateState(MergeMaps(a.transitions, b.transitions),
                                   <<a_accept, EPSILON>>, {b.start})
    IN  Class(self.kind, a.states \cup b.states, a.alphabet \cup b.alphabet,
              transitions, a.start, {b_accept})

\* NeFSM.union
Union(self, other, n) ==
    LET a == ToNormalForm(self, n)
        b == ToNormalForm(other, UidAfter(a, n))
        a_accept == TheOne(a.accepting)
        b_accept == TheOne(b.accepting)
        start == UidAfter(b, UidAfter(a, n))
        accept == start + 1
        merged == MergeMaps(a.transitions, b.transitions)
        t1 == [k \in DOMAIN merged \cup {<<start, EPSILON>>} |->
                  IF k = <<start, EPSILON>> THEN {a.start, b.start}
                  ELSE merged[k]]
        t2 == UpdateState(t1, <<a_accept, EPSILON>>, {accept})
        t3 == UpdateState(t2, <<b_accept, EPSILON>>, {accept})
    IN  Class(self.kind, a.states \cup b.states \cup {start, accept},
              a.alphabet \cup b.alphabet, t3, start, {accept})

\* a star without the epsilon edge from the accepting state back to the
\* new state
KleeneStarNoLoop(self, n) ==
    LET state == n
        x == ToNormalForm(self, n + 1)
        t1 == [k \in DOMAIN x.transitions \cup {<<state, EPSILON>>} |->
                  IF k = <<state, EPSILON>> THEN {x.start}
                  ELSE x.transitions[k]]
        looped == Class(self.kind, x.states \cup {state}, x.alphabet, t1,
                        state, {state} \cup x.accepting)
    IN  ToNormalForm(looped, UidAfter(looped, n + 1))

\* NeFSM.kleene_star
KleeneStar(self, n) ==
    LET state == n
        x == ToNormalForm(self, n + 1)
        accept == TheOne(x.accepting)
        t1 == [k \in DOMAIN x.transitions \cup {<<state, EPSILON>>} |->
                  IF k = <<state, EPSILON>> THEN {x.start}
                  ELSE x.transitions[k]]
        t2 == UpdateState(t1, <<accept, EPSILON>>, {state})
        looped == Class(self.kind, x.states \cup {state}, x.alphabet, t2,
                        state, {state})
    IN  ToNormalForm(looped, UidAfter(looped, n + 1))


\* what stands for the result of a call that never returns
Hang == [kind |-> "hang", states |-> {}, alphabet |-> {}, transitions |-> <<>>,
         start |-> 0, accepting |-> {}]

\* the states of M and the states its transition map names
Nodes(M) ==
    M.states \cup {k[1] : k \in DOMAIN M.transitions}
             \cup UNION {M.transitions[k] : k \in DOMAIN M.transitions}

RECURSIVE EpsilonClosureLoop(_, _, _, _)
\* the while loop of NeFSM._get_epsilon_closure: new is replaced by the
\* epsilon-successors of its states, seen before or not, so the loop ends
\* only if no epsilon-cycle is reached.  After as many rounds as M has
\* states and states named by its transitions (rounds counts down from
\* there) a non-empty `new` shows a cycle.
EpsilonClosureLoop(M, closure, new, rounds) ==
    IF new = {} THEN [hangs |-> FALSE, closure |-> closure]
    ELSE IF rounds = 0 THEN [hangs |-> TRUE, closure |-> closure \cup new]
    ELSE TheOne({EpsilonClosureLoop(M, all, targets, rounds - 1) :
                    all \in {closure \cup new},
                    targets \in {UNION {M.transitions[k] :
                                     k \in {<<node, EPSILON>> : node \in new}
                                           \cap DOMAIN M.transitions}}})

\* NeFSM._get_epsilon_closure
GetEpsilonClosure(M, state) ==
    EpsilonClosureLoop(M, {}, {state}, Cardinality(Nodes(M))).closure

\* NeFSM._get_epsilon_closure never returns
EpsilonClosureHangs(M, state) ==
    EpsilonClosureLoop(M, {}, {state}, Cardinality(Nodes(M))).hangs

Reverse(t) == [i \in DOMAIN t |-> t[Len(t) + 1 - i]]

Range(t) == {t[i] : i \in DOMAIN t}

\* tuple(states): the elements of a set in the order in which the set is
\* enumerated.  The order of a Python set depends on the hashes of its
\* elements and on the order of their insertion, so two equal sets may be
\* enumerated differently; the model has the ascending and the descending
\* order of the uids.
TupleOf(states, descending) ==
    IF descending THEN Reverse(SortedSeq(states)) ELSE SortedSeq(states)

\* NeFSM._construct_superset; the tuples built for the symbols of desc are
\* in descending order
ConstructSuperset(M, old, symbol, desc) ==
    LET keys == {<<state, symbol>> : state \in Range(old)} \cap DOMAIN M.transitions
        states == UNION {GetEpsilonClosure(M, new) :
                           new \in UNION {M.transitions[k] : k \in keys}}
    IN  TupleOf(states, symbol \in desc)

\* NeFSM._construct_superset never returns
ConstructSupersetHangs(M, old, symbol) ==
    LET keys == {<<state, symbol>> : state \in Range(old)} \cap DOMAIN M.transitions
    IN  \E new \in UNION {M.transitions[k] : k \in keys} :
            EpsilonClosureHangs(M, new)

RECURSIVE SymbolSeq(_)
\* the symbols of an alphabet in the order of a for loop over it
SymbolSeq(alphabet) ==
    IF alphabet = {} THEN <<>>
    ELSE LET symbol == CHOOSE x \in alphabet : TRUE
         IN  <<symbol>> \o SymbolSeq(alphabet \ {symbol})

RECURSIVE ToDfsmSymbols(_, _, _, _, _)
\* the for loop of to_dfsm over the symbols, for the superstate current
ToDfsmSymbols(M, ds, current, symbols, desc) ==
    IF symbols = <<>> \/ ds.hangs THEN ds
    ELSE IF ConstructSupersetHangs(M, current, Head(symbols))
    THEN [ds EXCEPT !.hangs = TRUE]
    ELSE LET symbol == Head(symbols)
             superstate == ConstructSuperset(M, current, symbol, desc)
             known == superstate \in DOMAIN ds.supersets
             state == IF known THEN ds.supersets[superstate] ELSE ds.free
             after ==
                 [stack |-> IF known THEN ds.stack
                            ELSE Append(ds.stack, superstate),
                  supersets |-> (superstate :> state) @@ ds.supersets,
                  transitions |->
                      [k \in DOMAIN ds.transitions
                             \cup {<<ds.supersets[current], symbol>>} |->
                          IF k = <<ds.supersets[current], symbol>> THEN {state}
                          ELSE ds.transitions[k]],
                  accepting |-> IF Range(superstate) \cap M.accepting # {}
                                THEN ds.accepting \cup {state}
                                ELSE ds.accepting,
                  free |-> IF known THEN ds.free ELSE ds.free + 1,
                  hangs |-> FALSE]
         IN  ToDfsmSymbols(M, IF superstate = <<>> THEN ds ELSE after,
                           current, Tail(symbols), desc)

RECURSIVE ToDfsmLoop(_, _, _)
\* the while loop of to_dfsm over the stack of superstates
ToDfsmLoop(M, ds, desc) ==
    IF ds.stack = <<>> \/ ds.hangs THEN ds
    ELSE LET current == ds.stack[Len(ds.stack)]
             popped == [ds EXCEPT !.stack = SubSeq(ds.stack, 1, Len(ds.stack) - 1)]
         IN  ToDfsmLoop(M, ToDfsmSymbols(M, popped, current,
                                         SymbolSeq(M.alphabet), desc),
                        desc)

\* NeFSM.to_dfsm
ToDfsm(M, n, desc) ==
    LET initial == n
        closure == GetEpsilonClosure(M, M.start)
        key == TupleOf(closure, FALSE)
        ds == ToDfsmLoop(M, [stack |-> <<key>>,
                             supersets |-> (key :> initial),
                             transitions |-> <<>>,
                             accepting |-> IF closure \cap M.accepting # {}
                                           THEN {initial} ELSE {},
                             free |-> n + 1,
                             hangs |-> FALSE],
                         desc)
    IN  IF EpsilonClosureHangs(M, M.start) THEN Hang
        ELSE TheOne({
            IF done.hangs THEN Hang
            ELSE DFSM({done.supersets[k] : k \in DOMAIN done.supersets},
                      M.alphabet, done.transitions, initial, done.accepting) :
               done \in {ds}})

\* DFSM.is_total
IsTotal(M) ==
    \A state \in M.states : \A symbol \in M.alphabet :
        <<state, symbol>> \in DOMAIN M.transitions

\* a make_total that sends the missing pairs to the trash state but gives
\* the trash state no edges of its own
MakeTotalNoTrashLoop(M, n) ==
    LET keys == {k \in M.states \X M.alphabet : k \notin DOMAIN M.transitions}
    IN  Class(M.kind, M.states \cup {n}, M.alphabet,
              [k \in DOMAIN M.transitions \cup keys |->
                  IF k \in DOMAIN M.transitions THEN M.transitions[k] ELSE {n}],
              M.start, M.accepting)

\* DFSM.make_total
MakeTotal(M, n) ==
    IF IsTotal(M) THEN M
    ELSE LET trash_state == n
             keys == (M.states \cup {trash_state}) \X M.alphabet
             transitions ==
                 [k \in DOMAIN M.transitions \cup keys |->
                     IF k[1] = trash_state THEN {trash_state}
                     ELSE IF k \in DOMAIN M.transitions THEN M.transitions[k]
                     ELSE {trash_state}]
         IN  Class(M.kind, M.states \cup {trash_state}, M.alphabet,
                   transitions, M.start, M.accepting)

\* DFSM.complement
DFSMComplement(M, n) ==
    TheOne({Class(M.kind, m.states, m.alphabet, m.transitions, m.start,
                  m.states \ m.accepting) :
               m \in {MakeTotal(M, n)}})

\* NeFSM.complement, DFSM.complement
Complement(M, n, desc) ==
    IF M.kind = "NFSM"
    THEN TheOne({IF d = Hang THEN Hang ELSE DFSMComplement(d, UidAfter(d, n)) :
                    d \in {ToDfsm(M, n, desc)}})
    ELSE DFSMComplement(M, n)

\* ~(not_a | not_b), the last two steps of NeFSM.intersection
ComplementOfUnion(not_a, not_b, n, desc) ==
    IF not_a = Hang \/ not_b = Hang THEN Hang
    ELSE TheOne({Complement(either, UidAfter(either, n), desc) :
                    either \in {Union(FromDfsm(not_a), FromDfsm(not_b), n)}})

\* NeFSM.intersection, reached from DFSM.__and__ through NeFSM.from_dfsm:
\* ~self, then ~other, then their union, then its complement
Intersection(self, other, n, desc) ==
    LET a == IF self.kind = "DFSM" THEN FromDfsm(self) ELSE self
    IN  TheOne(UNION {
            {ComplementOfUnion(not_a, not_b, UidAfter(not_b, UidAfter(not_a, n)), desc) :
                not_b \in {Complement(other, UidAfter(not_a, n), desc)}} :
            not_a \in {Complement(a, n, desc)}})

RECURSIVE UnreachableLoop(_, _, _, _)
\* the while loop of DFSM._get_unreachable_states: new is replaced by the
\* successors of its states, reached before or not; rounds as in
\* EpsilonClosureLoop
UnreachableLoop(M, reachable, new, rounds) ==
    IF new = {} THEN [hangs |-> FALSE, found |-> reachable]
    ELSE IF rounds = 0 THEN [hangs |-> TRUE, found |-> reachable \cup new]
    ELSE TheOne({UnreachableLoop(M, all, next, rounds - 1) :
                    all \in {reachable \cup new},
                    next \in {UNION {GetAllNextStates(M, state) : state \in new}}})

\* DFSM._get_unreachable_states
GetUnreachableStates(M) ==
    M.states \ UnreachableLoop(M, {}, {M.start}, Cardinality(Nodes(M))).found

\* DFSM._get_unreachable_states never returns
UnreachableStatesHangs(M) ==
    UnreachableLoop(M, {}, {M.start}, Cardinality(Nodes(M))).hangs

RECURSIVE UselessLoop(_, _, _, _)
\* the while loop of DFSM._get_useless_states: new is replaced by the
\* predecessors of its states, found before or not
UselessLoop(M, useful, new, rounds) ==
    IF new = {} THEN [hangs |-> FALSE, found |-> useful]
    ELSE IF rounds = 0 THEN [hangs |-> TRUE, found |-> useful \cup new]
    ELSE TheOne({UselessLoop(M, all, prev, rounds - 1) :
                    all \in {useful \cup new},
                    prev \in {UNION {GetAllPrevStates(M, state) : state \in new}}})

\* DFSM._get_useless_states
GetUselessStates(M) ==
    M.states \ UselessLoop(M, {}, M.accepting, Cardinality(Nodes(M))).found

\* DFSM._get_useless_states never returns
UselessStatesHangs(M) ==
    UselessLoop(M, {}, M.accepting, Cardinality(Nodes(M))).hangs

\* DFSM._empty_machine
EmptyMachine(M, n) == Class(M.kind, {n}, M.alphabet, <<>>, n, {})

\* `new in remove` in DFSM.simplify: new is a value of the transition map, a
\* frozenset of states, and remove is a set of State objects.  A State is
\* equal to State objects only (state.py:20-23): the test is never true.
TargetsInRemove(new, remove) == FALSE

\* DFSM.simplify
Simplify(M, n) ==
    IF UselessStatesHangs(M) THEN Hang
    ELSE TheOne({
        IF M.start \in useless THEN EmptyMachine(M, n)
        ELSE IF UnreachableStatesHangs(M) THEN Hang
        ELSE TheOne({
            Class(M.kind, M.states \ remove, M.alphabet,
                  [k \in {j \in DOMAIN M.transitions :
                            ~TargetsInRemove(M.transitions[j], remove)} |->
                      M.transitions[k]],
                  M.start, M.states \ remove) :
               remove \in {GetUnreachableStates(M) \cup useless}}) :
           useless \in {GetUselessStates(M)}})


----------------------------------------------------------------------------
(* The operations applied to machines a caller has constructed *)

\* the alphabets a caller may declare for a machine with the edges E
AlphabetsFor(E) == {S \in SUBSET Letters : LettersOf(E) \subseteq S}

\* M is a machine of a class with the edges of one of the edge sets
IsMachineOf(M, kind, edgeSets) ==
    \E E \in edgeSets : \E alphabet \in AlphabetsFor(E) :
        \E F \in SUBSET StateIds :
            M = Class(kind, StateIds, alphabet, TransitionsOf(E), 0, F)

\* the machines of a class whose alphabet is the set of letters on the edges
MachinesOn(kind, edgeSets) ==
    {Class(kind, StateIds, LettersOf(E), TransitionsOf(E), 0, F) :
        E \in edgeSets, F \in SUBSET StateIds}

EdgeSets(n) == SubsetsUpTo(EdgesOver(Letters \cup {EPSILON}), n)

DeterministicEdgeSets(n) ==
    {E \in SubsetsUpTo(EdgesOver(Letters), n) : IsDeterministic(E)}

\* M is an operand of the operations with one operand
IsUnaryOperand(M) ==
    \/ IsMachineOf(M, "NFSM", EdgeSets(MaxEdges))
    \/ IsMachineOf(M, "DFSM", DeterministicEdgeSets(MaxEdges))

\* the operands of the operations with two operands
BinaryOperands ==
    MachinesOn("NFSM", EdgeSets(MaxOperandEdges))
    \cup MachinesOn("DFSM", DeterministicEdgeSets(MaxOperandEdges))

\* M built on other State objects: every uid is k higher
OnOtherStates(M, k) ==
    Class(M.kind, {q + k : q \in M.states}, M.alphabet,
          [j \in {<<key[1] + k, key[2]>> : key \in DOMAIN M.transitions} |->
              {q + k : q \in M.transitions[<<j[1] - k, j[2]>>]}],
          M.start + k, {q + k : q \in M.accepting})

\* the operation named name returned the machine m
Returned(name, m) ==
    /\ op = ""
    /\ op' = name
    /\ R' = m
    /\ next_uid' = UidAfter(R', next_uid)
    /\ UNCHANGED <<A, B, to_dfsm>>
    /\ UNCHANGED runner_vars
    /\ UNCHANGED regex_vars

\* A.to_dfsm()
ToDfsmOp ==
    /\ A.kind = "NFSM"
    /\ \E desc \in SUBSET A.alphabet : Returned("to_dfsm", ToDfsm(A, next_uid, desc))

\* A.kleene_star()
KleeneStarOp ==
    /\ A.kind = "NFSM"
    /\ Returned("kleene_star", KleeneStar(A, next_uid))

\* ~A
ComplementOp ==
    \E desc \in SUBSET A.alphabet :
        Returned("complement", Complement(A, next_uid, desc))

\* A.simplify()
SimplifyOp ==
    /\ A.kind \in {"DFSM", "NFSM"}
    /\ Returned("simplify", Simplify(A, next_uid))

\* A | B (NeFSM.__or__)
UnionOp ==
    /\ A.kind = "NFSM"
    /\ Returned("union",
                Union(A, IF B.kind = "DFSM" THEN FromDfsm(B) ELSE B, next_uid))

\* A + B (NeFSM.__add__)
ConcatOp ==
    /\ A.kind = "NFSM"
    /\ Returned("concat",
                Concat(A, IF B.kind = "DFSM" THEN FromDfsm(B) ELSE B, next_uid))

\* A & B (NeFSM.__and__, DFSM.__and__)
IntersectionOp ==
    \E desc \in SUBSET (A.alphabet \cup B.alphabet) :
        Returned("intersection", Intersection(A, B, next_uid, desc))

RunnerUnused ==
    /\ machine = NoMachine
    /\ word = <<>>
    /\ mode = ""
    /\ pc = "idle"
    /\ backlog = <<>>
    /\ seen = <<>>
    /\ uid_max = 0
    /\ best = <<>>
    /\ result = Pending
    /\ longest = -1
    /\ calls = 0
    /\ search = NoSearch

\* a caller has constructed a machine A on the states 0 .. MaxStates - 1
InitUnary ==
    /\ IsUnaryOperand(A)
    /\ B = NoMachine
    /\ R = NoMachine
    /\ op = ""
    /\ next_uid = MaxStates
    /\ to_dfsm = NoToDfsm
    /\ RunnerUnused
    /\ RegexUnused

NextUnary == ToDfsmOp \/ KleeneStarOp \/ ComplementOp \/ SimplifyOp

SpecUnary == InitUnary /\ [][NextUnary]_vars

\* a caller has constructed two machines, B on the State objects of A or on
\* State objects of its own
InitBinary ==
    /\ A \in BinaryOperands
    /\ B \in BinaryOperands \cup {OnOtherStates(M, MaxStates) : M \in BinaryOperands}
    /\ R = NoMachine
    /\ op = ""
    /\ next_uid = 2 * MaxStates
    /\ to_dfsm = NoToDfsm
    /\ RunnerUnused
    /\ RegexUnused

NextBinary == UnionOp \/ ConcatOp \/ IntersectionOp

SpecBinary == InitBinary /\ [][NextBinary]_vars

\* A.make_total()
MakeTotalOp ==
    /\ A.kind \in {"DFSM", "NFSM"}
    /\ Returned("make_total", MakeTotal(A, next_uid))

\* A.to_normal_form()
ToNormalFormOp ==
    /\ A.kind = "NFSM"
    /\ Returned("to_normal_form", ToNormalForm(A, next_uid))

NextForms == MakeTotalOp \/ ToNormalFormOp

\* make_total and to_normal_form applied to a machine a caller constructed
SpecForms == InitUnary /\ [][NextForms]_vars

NextNormal == ToNormalFormOp \/ KleeneStarOp \/ UnionOp \/ ConcatOp

\* to_normal_form and the operations that build on it, applied to machines a
\* caller constructed
SpecNormal == InitBinary /\ [][NextNormal]_vars

\* DFSM.__sub__: self & ~other
Difference(self, other, n, desc) ==
    TheOne({IF not_other = Hang THEN Hang
            ELSE Intersection(self, not_other, UidAfter(not_other, n), desc) :
               not_other \in {Complement(other, n, desc)}})

\* a call that never returns
Never == [tag |-> "never", verdict |-> "", matches |-> <<>>]

\* what a called expression evaluates to: a boolean, or nothing when the
\* call never returns
Value(flag) == Verdict(IF flag THEN "True" ELSE "False")

\* DFSM.__bool__ of the machine M, or of the call that was to return it
Bool(M, n) ==
    IF M = Hang THEN Never
    ELSE TheOne({IF m = Hang THEN Never
                 ELSE Value(~(m.accepting = {} /\ m.transitions = <<>>)) :
                    m \in {Simplify(M, n)}})

\* DFSM.is_subset: not bool(self - other)
IsSubset(self, other, n, desc) ==
    TheOne({IF empty = Never THEN Never ELSE Value(empty = Value(FALSE)) :
               empty \in {Bool(d, n) : d \in {Difference(self, other, n, desc)}}})

\* DFSM.__eq__: bool(self - other) and bool(other - self); the right operand
\* of `and` is evaluated only if the left one is true
Eq(self, other, n, desc) ==
    TheOne({IF left # Value(TRUE) THEN left
            ELSE TheOne({Bool(d, n) : d \in {Difference(other, self, n, desc)}}) :
               left \in {Bool(d, n) : d \in {Difference(self, other, n, desc)}}})

\* DFSM.__ne__: not (self == other)
Ne(self, other, n, desc) ==
    TheOne({IF equal = Never THEN Never ELSE Value(equal = Value(FALSE)) :
               equal \in {Eq(self, other, n, desc)}})

\* the class of other is a proper subclass of the class of self (NeFSM of
\* DFSM): a comparison operator calls the method of other first, with the
\* operands swapped
Reflected(self, other) == self.kind = "DFSM" /\ other.kind = "NFSM"

\* the comparison named name returned v, or never returns
Compared(name, v) ==
    /\ op = ""
    /\ op' = name
    /\ result' = v
    /\ UNCHANGED <<A, B, R, next_uid, to_dfsm>>
    /\ UNCHANGED <<machine, word, mode, pc, backlog, seen, uid_max, best,
                   longest, calls, search>>
    /\ UNCHANGED regex_vars

\* A <= B is evaluated
IsSubsetOp ==
    \E desc \in SUBSET (A.alphabet \cup B.alphabet) :
        Compared("is_subset", IsSubset(A, B, next_uid, desc))

\* A == B is evaluated
EqOp ==
    \E desc \in SUBSET (A.alphabet \cup B.alphabet) :
        Compared("eq", IF Reflected(A, B) THEN Eq(B, A, next_uid, desc)
                       ELSE Eq(A, B, next_uid, desc))

\* A != B is evaluated
NeOp ==
    \E desc \in SUBSET (A.alphabet \cup B.alphabet) :
        Compared("ne", IF Reflected(A, B) THEN Ne(B, A, next_uid, desc)
                       ELSE Ne(A, B, next_uid, desc))

NextCompare == IsSubsetOp \/ EqOp \/ NeOp

\* the comparisons of two machines a caller constructed
SpecCompare == InitBinary /\ [][NextCompare]_vars

\* the result of A.simplify() is simplified: R.simplify()
SimplifyAgainOp ==
    /\ op = "simplify"
    /\ R # Hang
    /\ op' = "simplify_again"
    /\ B' = Simplify(R, next_uid)
    /\ next_uid' = UidAfter(B', next_uid)
    /\ UNCHANGED <<A, R, to_dfsm>>
    /\ UNCHANGED runner_vars
    /\ UNCHANGED regex_vars

\* the result of A.to_normal_form() is normalised: R.to_normal_form()
ToNormalFormAgainOp ==
    /\ op = "to_normal_form"
    /\ op' = "to_normal_form_again"
    /\ B' = ToNormalForm(R, next_uid)
    /\ next_uid' = UidAfter(B', next_uid)
    /\ UNCHANGED <<A, R, to_dfsm>>
    /\ UNCHANGED runner_vars
    /\ UNCHANGED regex_vars

NextTwice ==
    \/ SimplifyOp \/ SimplifyAgainOp
    \/ ToNormalFormOp \/ ToNormalFormAgainOp

\* simplify and to_normal_form applied to a machine a caller constructed and
\* then to their own result
SpecTwice == InitUnary /\ [][NextTwice]_vars

----------------------------------------------------------------------------
(* The worklist of to_dfsm, step by step *)

\* how tuple(states) orders a set, which depends on the hashes of the State
\* objects: when no two of them share a slot the order is the same however
\* the set was filled ("uid"); when they share a slot, it follows the order
\* in which the states were added ("insertion") or is the reverse of it
\* ("reverse")
TupleOrders == {"uid", "insertion", "reverse"}

RECURSIVE InsertEach(_, _)
\* states |= closure: the states of closure that states does not hold are
\* added, one after the other
InsertEach(states, closure) ==
    IF closure = <<>> THEN states
    ELSE TheOne({InsertEach(added, Tail(closure)) :
                    added \in {IF Head(closure) \in Range(states) THEN states
                               ELSE Append(states, Head(closure))}})

RECURSIVE InsertClosures(_, _, _)
\* the inner for loop of _construct_superset over the targets of one key
InsertClosures(M, states, news) ==
    IF news = <<>> THEN states
    ELSE TheOne({InsertClosures(M, added, Tail(news)) :
                    added \in {InsertEach(states,
                                          TupleOf(GetEpsilonClosure(M, Head(news)),
                                                  FALSE))}})

RECURSIVE InsertTargets(_, _, _, _, _)
\* the outer for loop of _construct_superset over the states of old; the
\* targets of a key are met in ascending or in descending order
InsertTargets(M, states, old, symbol, descending) ==
    IF old = <<>> THEN states
    ELSE TheOne({InsertTargets(M, added, Tail(old), symbol, descending) :
                    added \in {IF <<Head(old), symbol>> \in DOMAIN M.transitions
                               THEN InsertClosures(
                                        M, states,
                                        TupleOf(M.transitions[<<Head(old), symbol>>],
                                                descending))
                               ELSE states}})

\* tuple(states) of a set whose states were added in the order of added
TupleInOrder(added, order) ==
    CASE order = "insertion" -> added
      [] order = "reverse" -> Reverse(added)
      [] order = "uid" -> SortedSeq(Range(added))

\* NeFSM._construct_superset, with the order of the tuple it returns
ConstructSupersetInOrder(M, old, symbol, order, descending) ==
    TupleInOrder(InsertTargets(M, <<>>, old, symbol, descending), order)

\* to_dfsm is called on A: the lines before the while loop
ToDfsmCall ==
    /\ to_dfsm.at = ""
    /\ op = ""
    /\ A.kind = "NFSM"
    /\ op' = "to_dfsm"
    /\ \E order \in TupleOrders :
       \E descending \in IF order = "uid" THEN {FALSE} ELSE BOOLEAN :
       \E key \in {TupleInOrder(TupleOf(GetEpsilonClosure(A, A.start), FALSE),
                                order)} :
           to_dfsm' = [at |-> "while",
                       stack |-> <<key>>,
                       supersets |-> (key :> next_uid),
                       transitions |-> <<>>,
                       accepting |-> IF Range(key) \cap A.accepting # {}
                                     THEN {next_uid} ELSE {},
                       free |-> next_uid + 1,
                       current |-> <<>>,
                       symbols |-> <<>>,
                       order |-> order,
                       descending |-> descending]
    /\ UNCHANGED <<A, B, R, next_uid>>
    /\ UNCHANGED runner_vars
    /\ UNCHANGED regex_vars

\* while stack: current = stack.pop(), and the for loop begins
ToDfsmPop ==
    /\ to_dfsm.at = "while"
    /\ to_dfsm.stack # <<>>
    /\ to_dfsm' = [to_dfsm EXCEPT
                      !.at = "for",
                      !.current = to_dfsm.stack[Len(to_dfsm.stack)],
                      !.stack = SubSeq(to_dfsm.stack, 1, Len(to_dfsm.stack) - 1),
                      !.symbols = SymbolSeq(A.alphabet)]
    /\ UNCHANGED <<A, B, op, R, next_uid>>
    /\ UNCHANGED runner_vars
    /\ UNCHANGED regex_vars

\* one round of the for loop over the symbols
ToDfsmSymbol ==
    /\ to_dfsm.at = "for"
    /\ to_dfsm.symbols # <<>>
    /\ \E symbol \in {Head(to_dfsm.symbols)} :
       \E superstate \in {ConstructSupersetInOrder(A, to_dfsm.current, symbol,
                                                   to_dfsm.order,
                                                   to_dfsm.descending)} :
       \E known \in {superstate \in DOMAIN to_dfsm.supersets} :
       \E state \in {IF known THEN to_dfsm.supersets[superstate]
                     ELSE to_dfsm.free} :
       \E from \in {to_dfsm.supersets[to_dfsm.current]} :
           to_dfsm' =
               IF superstate = <<>>
               THEN [to_dfsm EXCEPT !.symbols = Tail(to_dfsm.symbols)]
               ELSE [to_dfsm EXCEPT
                        !.symbols = Tail(to_dfsm.symbols),
                        !.stack = IF known THEN to_dfsm.stack
                                  ELSE Append(to_dfsm.stack, superstate),
                        !.supersets = (superstate :> state) @@ to_dfsm.supersets,
                        !.transitions =
                            (<<from, symbol>> :> {state}) @@ to_dfsm.transitions,
                        !.accepting =
                            IF Range(superstate) \cap A.accepting # {}
                            THEN to_dfsm.accepting \cup {state}
                            ELSE to_dfsm.accepting,
                        !.free = IF known THEN to_dfsm.free
                                 ELSE to_dfsm.free + 1]
    /\ UNCHANGED <<A, B, op, R, next_uid>>
    /\ UNCHANGED runner_vars
    /\ UNCHANGED regex_vars

\* the for loop is over: back to the test of the while loop
ToDfsmEndFor ==
    /\ to_dfsm.at = "for"
    /\ to_dfsm.symbols = <<>>
    /\ to_dfsm' = [to_dfsm EXCEPT !.at = "while"]
    /\ UNCHANGED <<A, B, op, R, next_uid>>
    /\ UNCHANGED runner_vars
    /\ UNCHANGED regex_vars

\* the stack is empty: to_dfsm returns the DFSM
ToDfsmReturn ==
    /\ to_dfsm.at = "while"
    /\ to_dfsm.stack = <<>>
    /\ to_dfsm' = [to_dfsm EXCEPT !.at = "returned"]
    /\ R' = DFSM({to_dfsm.supersets[k] : k \in DOMAIN to_dfsm.supersets},
                 A.alphabet, to_dfsm.transitions,
                 next_uid,
                 to_dfsm.accepting)
    /\ next_uid' = to_dfsm.free
    /\ UNCHANGED <<A, B, op>>
    /\ UNCHANGED runner_vars
    /\ UNCHANGED regex_vars

\* the machines to_dfsm is followed on: no epsilon edge, so that every
\* closure is one state
InitToDfsm ==
    /\ A \in {NeFSM(StateIds, Letters, TransitionsOf(E), 0, F) :
                 E \in SubsetsUpTo(EdgesOver(Letters), MaxWorklistEdges),
                 F \in SUBSET StateIds}
    /\ B = NoMachine
    /\ R = NoMachine
    /\ op = ""
    /\ next_uid = MaxStates
    /\ to_dfsm = NoToDfsm
    /\ RunnerUnused
    /\ RegexUnused

NextToDfsm ==
    ToDfsmCall \/ ToDfsmPop \/ ToDfsmSymbol \/ ToDfsmEndFor \/ ToDfsmReturn

\* one call of to_dfsm on a machine a caller constructed
SpecToDfsm == InitToDfsm /\ [][NextToDfsm]_vars

----------------------------------------------------------------------------
(* The regex parser (automata/fsm/simple_regex_parser.py).  A pattern is   *)
(* a sequence of characters; a token is a record, a GROUP token carrying   *)
(* the tokens of its group; a tree is a record with its children.          *)

Token(type, symbol, tokens) == [type |-> type, symbol |-> symbol, tokens |-> tokens]

\* Leaf(symbol)
Leaf(symbol) == [type |-> "LEAF", symbol |-> symbol, children |-> <<>>]

\* Node(typ, left, right)
Node(type, children) == [type |-> type, symbol |-> "", children |-> children]

\* what a step of the parser returned (error = "") or raised
Parsed(error, tree) == [error |-> error, tree |-> tree]

RECURSIVE Tokenize(_, _, _)
\* _tokenize from the characters left in the stream, with the tokens
\* collected so far: the tokens, the stream after them, and the exception
\* raised if any.  next(stream) on the escape character raises
\* StopIteration when the stream is exhausted.
Tokenize(stream, tokens, recursive) ==
    IF stream = <<>>
    THEN [error |-> IF recursive THEN "ValueError" ELSE "",
          tokens |-> tokens, stream |-> stream]
    ELSE LET c == Head(stream)
             rest == Tail(stream)
         IN  IF c = "*"
             THEN Tokenize(rest, Append(tokens, Token("STAR", "", <<>>)), recursive)
             ELSE IF c = "("
             THEN TheOne({IF group.error # "" THEN group
                          ELSE Tokenize(group.stream,
                                        Append(tokens, Token("GROUP", "", group.tokens)),
                                        recursive) :
                             group \in {Tokenize(rest, <<>>, TRUE)}})
             ELSE IF c = ")"
             THEN [error |-> IF recursive THEN "" ELSE "ValueError",
                   tokens |-> tokens, stream |-> rest]
             ELSE IF c = "|"
             THEN Tokenize(rest, Append(tokens, Token("UNION", "", <<>>)), recursive)
             ELSE IF c = "\\"
             THEN IF rest = <<>>
                  THEN [error |-> "StopIteration", tokens |-> tokens, stream |-> rest]
                  ELSE Tokenize(Tail(rest),
                                Append(tokens, Token("SYMBOL", Head(rest), <<>>)),
                                recursive)
             ELSE Tokenize(rest, Append(tokens, Token("SYMBOL", c, <<>>)), recursive)

\* _apply_epsilon_fill that inserts nothing
ApplyNoEpsilonFill(tokens) == tokens

RECURSIVE ApplyEpsilonFill(_)
\* _apply_epsilon_fill
ApplyEpsilonFill(tokens) ==
    LET epsilon == Token("SYMBOL", EPSILON, <<>>)
        first(index) == index = 1 \/ tokens[index - 1].type = "UNION"
        filled(index) ==
            LET token == tokens[index]
            IN  IF token.type = "GROUP"
                THEN << Token("GROUP", "", ApplyEpsilonFill(token.tokens)) >>
                ELSE IF token.type = "STAR"
                THEN IF first(index) THEN <<epsilon>> ELSE <<token>>
                ELSE IF token.type = "UNION"
                THEN IF first(index) THEN <<epsilon, token>> ELSE <<token>>
                ELSE <<token>>
        RECURSIVE from(_)
        from(index) ==
            IF index > Len(tokens) THEN <<>> ELSE filled(index) \o from(index + 1)
        new_tokens == from(1)
    IN  IF new_tokens = <<>> \/ new_tokens[Len(new_tokens)].type = "UNION"
        THEN Append(new_tokens, epsilon)
        ELSE new_tokens

\* tokens[i], tokens[i+1] = tokens[i+1], tokens[i]
Swap(tokens, i) ==
    [tokens EXCEPT ![i] = tokens[i + 1], ![i + 1] = tokens[i]]

RECURSIVE Bubble(_, _, _)
\* the for loop of _to_postfix: the token at `from` moves up to `to`;
\* a swap with the position after the last token raises IndexError
Bubble(tokens, from, to) ==
    IF from >= to THEN [error |-> "", tokens |-> tokens]
    ELSE IF from + 1 > Len(tokens) THEN [error |-> "IndexError", tokens |-> tokens]
    ELSE Bubble(Swap(tokens, from), from + 1, to)

RECURSIVE SkipStars(_, _)
\* step 2 of _to_postfix: the last of the STAR tokens that follow index
SkipStars(tokens, index) ==
    IF index + 1 <= Len(tokens) /\ tokens[index + 1].type = "STAR"
    THEN SkipStars(tokens, index + 1)
    ELSE index

RECURSIVE ToPostfixFrom(_, _)
\* the while loop of _to_postfix from index (positions count from 1)
ToPostfixFrom(tokens, index) ==
    IF index > Len(tokens) THEN [error |-> "", tokens |-> tokens]
    ELSE IF tokens[index].type = "UNION"
    THEN LET to == SkipStars(tokens, index + 1)
         IN  TheOne({IF moved.error # "" THEN moved
                     ELSE ToPostfixFrom(moved.tokens, to + 1) :
                        moved \in {Bubble(tokens, index, to)}})
    ELSE ToPostfixFrom(tokens, index + 1)

\* _to_postfix
ToPostfix(tokens) == ToPostfixFrom(tokens, 1)

RECURSIVE RecursiveToPostfix(_)
RECURSIVE GroupsToPostfix(_, _)
\* the for loop of _recursive_to_postfix over the tokens from index
GroupsToPostfix(tokens, index) ==
    IF index > Len(tokens) THEN [error |-> "", tokens |-> tokens]
    ELSE IF tokens[index].type = "GROUP"
    THEN TheOne({IF group.error # "" THEN group
                 ELSE GroupsToPostfix(
                          [tokens EXCEPT ![index] = Token("GROUP", "", group.tokens)],
                          index + 1) :
                    group \in {RecursiveToPostfix(tokens[index].tokens)}})
    ELSE GroupsToPostfix(tokens, index + 1)

\* _recursive_to_postfix
RecursiveToPostfix(tokens) ==
    TheOne({IF flat.error # "" THEN flat ELSE GroupsToPostfix(flat.tokens, 1) :
               flat \in {ToPostfix(tokens)}})

RECURSIVE MakeChain(_)
\* _make_chain; nodes.pop(0) on an empty list raises IndexError
MakeChain(nodes) ==
    IF Len(nodes) = 1 THEN Parsed("", nodes[1])
    ELSE IF nodes = <<>> THEN Parsed("IndexError", <<>>)
    ELSE TheOne({IF chain.error # "" THEN chain
                 ELSE Parsed("", Node("CONCAT", <<Head(nodes), chain.tree>>)) :
                    chain \in {MakeChain(Tail(nodes))}})

\* stack.pop(): the stack without its last element
Pop(stack) == SubSeq(stack, 1, Len(stack) - 1)

RECURSIVE BuildTree(_)
RECURSIVE BuildTreeFrom(_, _, _)
\* the for loop of _build_tree over the tokens from index
BuildTreeFrom(tokens, index, stack) ==
    IF index > Len(tokens) THEN MakeChain(stack)
    ELSE LET token == tokens[index]
         IN  IF token.type = "SYMBOL"
             THEN BuildTreeFrom(tokens, index + 1, Append(stack, Leaf(token.symbol)))
             ELSE IF token.type = "STAR"
             THEN IF stack = <<>> THEN Parsed("IndexError", <<>>)
                  ELSE BuildTreeFrom(
                           tokens, index + 1,
                           Append(Pop(stack),
                                  Node("KLEENE_STAR", <<stack[Len(stack)]>>)))
             ELSE IF token.type = "GROUP"
             THEN TheOne({IF group.error # "" THEN group
                          ELSE BuildTreeFrom(tokens, index + 1,
                                             Append(stack, group.tree)) :
                             group \in {BuildTree(token.tokens)}})
             ELSE IF Len(stack) < 2 THEN Parsed("IndexError", <<>>)
                  ELSE BuildTreeFrom(
                           tokens, index + 1,
                           Append(Pop(Pop(stack)),
                                  Node("UNION", <<stack[Len(stack) - 1],
                                                  stack[Len(stack)]>>)))

\* _build_tree
BuildTree(tokens) == BuildTreeFrom(tokens, 1, <<>>)

\* parse_regex
ParseRegex(p) ==
    TheOne({IF tokens.error # "" THEN Parsed(tokens.error, <<>>)
            ELSE TheOne({IF postfix.error # "" THEN Parsed(postfix.error, <<>>)
                         ELSE BuildTree(postfix.tokens) :
                            postfix \in {RecursiveToPostfix(
                                             ApplyEpsilonFill(tokens.tokens))}}) :
               tokens \in {Tokenize(p, <<>>, FALSE)}})

\* atom_matcher with the start state accepting as well
AtomMatcherAcceptingStart(symbol, n) ==
    NeFSM({n, n + 1}, {symbol}, (<<n, symbol>> :> {n + 1}), n, {n, n + 1})

\* NeFSM.atom_matcher; the two states take the uids n and n + 1
AtomMatcher(symbol, n) ==
    NeFSM({n, n + 1}, {symbol}, (<<n, symbol>> :> {n + 1}), n, {n + 1})

RECURSIVE TreeToRegex(_, _)
\* _tree_to_regex: the machine of a tree, the left subtree lowered first; the
\* uids from n on are free
TreeToRegex(tree, n) ==
    IF tree.type = "LEAF" THEN AtomMatcher(tree.symbol, n)
    ELSE IF tree.type = "KLEENE_STAR"
    THEN TheOne({KleeneStar(left, UidAfter(left, n)) :
                    left \in {TreeToRegex(tree.children[1], n)}})
    ELSE TheOne(UNION {
             {IF tree.type = "UNION"
              THEN Union(left, right, UidAfter(right, UidAfter(left, n)))
              ELSE Concat(left, right, UidAfter(right, UidAfter(left, n))) :
                 right \in {TreeToRegex(tree.children[2], UidAfter(left, n))}} :
             left \in {TreeToRegex(tree.children[1], n)}})

\* compile_regex: the tree of the pattern, then its machine
CompileRegex(p, n) ==
    TheOne({IF tree.error # "" THEN NoMachine ELSE TreeToRegex(tree.tree, n) :
               tree \in {ParseRegex(p)}})

\* the literal characters of the patterns and of the words matched
RegexLetters == {"a", "b", "c"}

\* the characters of the patterns: the literals and the metacharacters of
\* _is_star, _is_union, _is_open, _is_close and _is_escape
RegexChars == RegexLetters \cup {"|", "*", "(", ")", "\\"}

\* the patterns of the scenarios of src/test.py and of the precedence rules
ScenarioPatterns ==
    {<<"a">>, <<"a", "b">>, <<"a", "*">>, <<"a", "|", "b">>,
     <<"(", "a", "|", "b", ")", "*">>, <<"(", "a", "b", ")", "*">>,
     <<"a", "b", "c">>, <<"a", "b", "|", "c">>, <<"a", "|", "b", "c">>}

\* the patterns a caller passes: every pattern of at most MaxPatternLen
\* characters and the scenario patterns
Patterns ==
    UNION {[1..n -> RegexChars] : n \in 0..MaxPatternLen} \cup ScenarioPatterns

\* the words a compiled machine is run on
RegexWords == UNION {[1..n -> RegexLetters] : n \in 0..MaxRegexWordLen}

\* parse_regex(pattern)
ParseRegexOp ==
    /\ op = ""
    /\ op' = "parse_regex"
    /\ parsed' = ParseRegex(pattern)
    /\ UNCHANGED <<A, B, R, next_uid, to_dfsm, pattern, regex>>
    /\ UNCHANGED runner_vars

\* a caller has a pattern
InitRegex ==
    /\ pattern \in Patterns
    /\ parsed = NoParse
    /\ regex = <<>>
    /\ A = NoMachine /\ B = NoMachine /\ R = NoMachine
    /\ op = ""
    /\ next_uid = 0
    /\ to_dfsm = NoToDfsm
    /\ RunnerUnused

\* compile_regex(pattern): the call returns a machine or ends in the
\* exception parse_regex raised
CompileRegexOp ==
    /\ op = ""
    /\ op' = "compile_regex"
    /\ parsed' = ParseRegex(pattern)
    /\ R' = CompileRegex(pattern, next_uid)
    /\ next_uid' = UidAfter(R', next_uid)
    /\ UNCHANGED <<A, B, to_dfsm, pattern, regex>>
    /\ UNCHANGED runner_vars

\* a symbol as it is formatted into a regex string
SymbolText(symbol) == IF symbol = EPSILON THEN <<>> ELSE <<symbol>>

\* the regexes dict of to_regex after the loop over machine.transitions: the
\* symbol of the edge old -> new; of several edges between the same two
\* states the one whose key comes last in the dict stays, and order is the
\* order of the symbols in which the keys of one state were inserted
InitialRegexes(M, order) ==
    LET pairs == {<<k[1], new>> : k \in {x \in DOMAIN M.transitions : TRUE},
                                  new \in M.states}
        edges(pair) == {i \in DOMAIN order :
                           /\ <<pair[1], order[i]>> \in DOMAIN M.transitions
                           /\ pair[2] \in M.transitions[<<pair[1], order[i]>>]}
        linked == {pair \in pairs : edges(pair) # {}}
    IN  [pair \in linked |-> SymbolText(order[Max(edges(pair))])]

\* one round of the while loop of to_regex: the state q leaves the pool and
\* every path r -> q -> s becomes an entry for r -> s
EliminateState(regexes, pool, q) ==
    LET key == <<q, q>>
        middle == IF key \in DOMAIN regexes
                  THEN regexes[key] \o <<"*">> ELSE <<>>
        through == {<<r, s>> \in pool \X pool :
                       /\ <<r, q>> \in DOMAIN regexes
                       /\ <<q, s>> \in DOMAIN regexes}
        path(rs) == regexes[<<rs[1], q>>] \o middle \o regexes[<<q, rs[2]>>]
    IN  [rs \in DOMAIN regexes \cup through |->
            IF rs \notin through THEN regexes[rs]
            ELSE IF rs \notin DOMAIN regexes THEN path(rs)
            ELSE <<"(">> \o regexes[rs] \o <<")", "|", "(">> \o path(rs)
                     \o <<")">>]

RECURSIVE EliminateStates(_, _, _)
\* the while loop of to_regex; states.pop() takes the states in the order of
\* the sequence elim
EliminateStates(regexes, pool, elim) ==
    IF elim = <<>> THEN regexes
    ELSE EliminateStates(EliminateState(regexes, pool \ {Head(elim)}, Head(elim)),
                         pool \ {Head(elim)}, Tail(elim))

\* NeFSM.to_regex; the uids from n on are free
ToRegex(M, n, order, elim) ==
    LET normal == ToNormalForm(M, n)
        accept == TheOne(normal.accepting)
        regexes == EliminateStates(InitialRegexes(normal, order),
                                   normal.states, elim)
    IN  IF <<normal.start, accept>> \in DOMAIN regexes
        THEN regexes[<<normal.start, accept>>] ELSE <<>>

\* the states to_regex eliminates
EliminatedStates(M, n) ==
    LET normal == ToNormalForm(M, n)
    IN  normal.states \ (normal.accepting \cup {normal.start})

\* l = k.to_dfsm() on the machine compile_regex returned
CompiledToDfsmOp ==
    /\ op = "compile_regex"
    /\ parsed.error = ""
    /\ op' = "to_dfsm"
    /\ \E desc \in SUBSET R.alphabet : A' = ToDfsm(R, next_uid, desc)
    /\ next_uid' = UidAfter(A', next_uid)
    /\ UNCHANGED <<B, R, to_dfsm>>
    /\ UNCHANGED runner_vars
    /\ UNCHANGED regex_vars

\* NeFSM.from_dfsm(l).to_regex()
ToRegexOp ==
    /\ op = "to_dfsm"
    /\ A # Hang
    /\ op' = "to_regex"
    /\ \E order \in Orders(A.alphabet \cup {EPSILON}) :
           \E elim \in Orders(EliminatedStates(FromDfsm(A), next_uid)) :
               regex' = ToRegex(FromDfsm(A), next_uid, order, elim)
    /\ next_uid' = UidAfter(ToNormalForm(FromDfsm(A), next_uid), next_uid)
    /\ UNCHANGED <<A, B, R, to_dfsm, pattern, parsed>>
    /\ UNCHANGED runner_vars

\* compile_regex on the string to_regex returned
RecompileOp ==
    /\ op = "to_regex"
    /\ op' = "recompile"
    /\ B' = CompileRegex(regex, next_uid)
    /\ next_uid' = UidAfter(B', next_uid)
    /\ UNCHANGED <<A, R, to_dfsm>>
    /\ UNCHANGED runner_vars
    /\ UNCHANGED regex_vars

NextRegex == ParseRegexOp \/ CompileRegexOp

SpecRegex == InitRegex /\ [][NextRegex]_vars

RECURSIVE HasEpsilonLeaf(_)
\* the tree has a leaf that _apply_epsilon_fill put in for a missing operand
HasEpsilonLeaf(tree) ==
    IF tree.type = "LEAF" THEN tree.symbol = EPSILON
    ELSE \E i \in DOMAIN tree.children : HasEpsilonLeaf(tree.children[i])

\* the patterns src/test.py takes through to_dfsm and to_regex, and '(ab)*'
RoundTripExamples ==
    {<<"a">>, <<"a", "b", "c">>, <<"a", "|", "b">>, <<"a", "*">>,
     <<"(", "a", "b", ")", "*">>}

\* the patterns taken through to_dfsm, to_regex and compile_regex again: the
\* examples and every pattern of at most MaxRoundTripLen literals, unions,
\* stars and parentheses, those left out in which an operator lacks an
\* operand
RoundTripPatterns ==
    {p \in UNION {[1..n -> RegexChars \ {"\\"}] : n \in 0..MaxRoundTripLen}
               \cup RoundTripExamples :
        \A tree \in {ParseRegex(p)} :
            tree.error # "" \/ ~HasEpsilonLeaf(tree.tree)}

\* a caller has a pattern to take through the round trip
InitRoundTrip ==
    /\ pattern \in RoundTripPatterns
    /\ parsed = NoParse
    /\ regex = <<>>
    /\ A = NoMachine /\ B = NoMachine /\ R = NoMachine
    /\ op = ""
    /\ next_uid = 0
    /\ to_dfsm = NoToDfsm
    /\ RunnerUnused

NextRoundTrip ==
    \/ CompileRegexOp
    \/ CompiledToDfsmOp
    \/ ToRegexOp
    \/ RecompileOp

SpecRoundTrip == InitRoundTrip /\ [][NextRoundTrip]_vars

----------------------------------------------------------------------------
(* The operands of a call, as objects: which dict a call writes into *)

\* FrozenDict.dictionary: the dict object a machine keeps its transitions in,
\* named by the operand that owns it
Dictionary(owner, M) == [object |-> owner, entries |-> M.transitions]

\* a working dict that is the dict of the operand itself, not a copy of it
DictionaryItself(d) == d

\* dict.copy(): another dict object with the same entries; the values are
\* frozensets (util.freeze_map), so `transitions[key] |= targets` binds the key
\* of the working dict to a new set
DictionaryCopy(d) == [object |-> "new", entries |-> d.entries]

\* the dict d after the call has written into it: it holds what the call hands
\* to the constructor of the machine it returns
Written(d, transitions) == [object |-> d.object, entries |-> transitions]

\* NeFSM.to_normal_form writes into a copy of the dict of self
ToNormalFormWrites(owner, M, n) ==
    {Written(DictionaryCopy(Dictionary(owner, M)), ToNormalForm(M, n).transitions)}

\* DFSM.make_total returns self if self is total, and writes the transitions
\* into the trash state into a copy of the dict of self otherwise
MakeTotalWrites(owner, M, n) ==
    IF IsTotal(M) THEN {}
    ELSE {Written(DictionaryCopy(Dictionary(owner, M)), MakeTotal(M, n).transitions)}

\* DFSM.simplify deletes from a copy of the dict of self, which it makes after
\* the useless states were found and the start state is not one of them
SimplifyWrites(owner, M, n) ==
    IF UselessStatesHangs(M) \/ M.start \in GetUselessStates(M)
          \/ UnreachableStatesHangs(M)
    THEN {}
    ELSE {Written(DictionaryCopy(Dictionary(owner, M)), Simplify(M, n).transitions)}

\* the dicts the call A.<name>(B) has written into. union and concat put a
\* DFSM operand into a new NeFSM first (from_dfsm), kleene_star makes its
\* State before it normalises self, to_regex normalises self, to_dfsm writes
\* into a new dict, NeFSM.complement works on self.to_dfsm(), and intersection
\* complements self through to_dfsm and other through its own complement
Writes(name, n) ==
    CASE name \in {"to_normal_form", "to_regex"} -> ToNormalFormWrites("A", A, n)
      [] name = "kleene_star" -> ToNormalFormWrites("A", A, n + 1)
      [] name \in {"union", "concat"} ->
            ToNormalFormWrites("A", A, n)
            \cup (IF B.kind = "NFSM"
                  THEN ToNormalFormWrites("B", B, UidAfter(ToNormalForm(A, n), n))
                  ELSE {})
      [] name = "make_total" -> MakeTotalWrites("A", A, n)
      [] name = "complement" ->
            IF A.kind = "DFSM" THEN MakeTotalWrites("A", A, n) ELSE {}
      [] name = "intersection" ->
            IF B.kind = "DFSM" THEN MakeTotalWrites("B", B, n) ELSE {}
      [] name = "simplify" -> SimplifyWrites("A", A, n)
      [] name = "to_dfsm" -> {}

\* the operand M, whose dict is the one named owner, as it reads after the
\* writes of a call
AfterWrites(owner, M, writes) ==
    IF \E w \in writes : w.object = owner
    THEN [M EXCEPT !.transitions =
             (CHOOSE w \in writes : w.object = owner).entries]
    ELSE M

\* the machine the call A.<name>(B) returns
Result(name, n, desc) ==
    CASE name = "to_normal_form" -> ToNormalForm(A, n)
      [] name = "kleene_star" -> KleeneStar(A, n)
      [] name = "union" ->
            Union(A, IF B.kind = "DFSM" THEN FromDfsm(B) ELSE B, n)
      [] name = "concat" ->
            Concat(A, IF B.kind = "DFSM" THEN FromDfsm(B) ELSE B, n)
      [] name = "make_total" -> MakeTotal(A, n)
      [] name = "complement" -> Complement(A, n, desc)
      [] name = "intersection" -> Intersection(A, B, n, desc)
      [] name = "simplify" -> Simplify(A, n)
      [] name = "to_dfsm" -> ToDfsm(A, n, desc)

OnlyNeFSM == {"to_normal_form", "kleene_star", "union", "concat", "to_dfsm"}

\* one of the operations that return a machine is called on the operands A
\* and B, whatever was called on them before
ReuseOp ==
    /\ op = ""
    /\ \E name \in OnlyNeFSM \cup {"make_total", "complement", "intersection",
                                  "simplify"} :
       \E desc \in SUBSET (A.alphabet \cup B.alphabet) :
           /\ name \in OnlyNeFSM => A.kind = "NFSM"
           /\ op' = name
           /\ R' = Result(name, next_uid, desc)
           /\ A' = AfterWrites("A", A, Writes(name, next_uid))
           /\ B' = AfterWrites("B", B, Writes(name, next_uid))
    /\ next_uid' = UidAfter(R', next_uid)
    /\ UNCHANGED to_dfsm
    /\ UNCHANGED runner_vars
    /\ UNCHANGED regex_vars

\* A.to_regex() is called, whatever was called on A and B before
ReuseToRegexOp ==
    /\ op = ""
    /\ A.kind = "NFSM"
    /\ op' = "to_regex"
    /\ \E order \in Orders(A.alphabet \cup {EPSILON}) :
           \E elim \in Orders(EliminatedStates(A, next_uid)) :
               regex' = ToRegex(A, next_uid, order, elim)
    /\ A' = AfterWrites("A", A, Writes("to_regex", next_uid))
    /\ B' = AfterWrites("B", B, Writes("to_regex", next_uid))
    /\ UNCHANGED <<R, next_uid, to_dfsm, pattern, parsed>>
    /\ UNCHANGED runner_vars

\* the caller lets go of what the call returned and goes on with the
\* operands; the State objects made by the call are in no operand
DropOp ==
    /\ op # ""
    /\ R # Hang
    /\ op' = ""
    /\ R' = NoMachine
    /\ regex' = <<>>
    /\ next_uid' = 2 * MaxStates
    /\ UNCHANGED <<A, B, to_dfsm, pattern, parsed>>
    /\ UNCHANGED runner_vars

NextReuse == ReuseOp \/ ReuseToRegexOp \/ DropOp

\* any sequence of operations on two machines a caller constructed
SpecReuse == InitBinary /\ [][NextReuse]_vars

\* the loop of a call runs to its end: nothing else runs beside it
FairSpecRun ==
    SpecRun /\ WF_vars(RunWithStep \/ RunWithReturn \/ FindLastStep
                       \/ FindLastReturn \/ FindFirstStep \/ FindFirstReturn
                       \/ FindAllStep \/ FindAllReturn)

----------------------------------------------------------------------------
(* Properties of the runner *)

\* the targets of the edges of M from q labelled x
Targets(M, q, x) ==
    IF <<q, x>> \in DOMAIN M.transitions THEN M.transitions[<<q, x>>] ELSE {}

RECURSIVE Reach(_, _, _)
\* the pairs <<i, q>> such that M can be in state q after reading the first
\* i symbols of w, by letter moves and epsilon moves from the pairs of S
Reach(M, w, S) ==
    LET T == S \cup UNION {{<<c[1], r>> : r \in Targets(M, c[2], EPSILON)} : c \in S}
               \cup UNION {IF c[1] < Len(w)
                           THEN {<<c[1] + 1, r>> : r \in Targets(M, c[2], w[c[1] + 1])}
                           ELSE {} : c \in S}
    IN  IF T = S THEN S ELSE Reach(M, w, T)

\* there is a path of M from its initial state to an accepting state that
\* reads exactly w
Accepts(M, w) ==
    \E c \in Reach(M, w, {<<0, M.start>>}) : c[1] = Len(w) /\ c[2] \in M.accepting

HasEpsilonCycle(M) ==
    \E q \in M.states : \E c \in Reach(M, <<>>, {<<0, r>> : r \in Targets(M, q, EPSILON)}) : c[2] = q

\* C1: on a nondeterministic machine run_with returns Accept iff a path from
\* the initial state reads exactly the word and ends in an accepting state;
\* otherwise it returns Reject, and only once the backlog is empty
RunWithDecidesAcceptance ==
    (machine.kind = "NFSM" /\ mode = "run_with" /\ pc = "done") =>
        /\ result = Verdict(FromBool(Accepts(machine, word)))
        /\ result.verdict = "REJECT" => backlog = <<>>

\* a run over an epsilon-cycle accepted a non-empty word
RunWithAcceptedOnCycle ==
    /\ machine.kind = "NFSM" /\ mode = "run_with" /\ pc = "done"
    /\ HasEpsilonCycle(machine)
    /\ word # <<>>
    /\ result = Verdict("ACCEPT")

\* C2: on every finite-state machine each of run_with, find_first,
\* find_last and find_all, once called, returns
RunnerTerminates ==
    (pc = "loop" /\ machine.kind # "PDM") ~> (pc = "done")

\* a call has returned on a machine with an epsilon-cycle, after it pushed
\* configurations reached over the cycle
TerminatedOnCycle ==
    /\ pc = "done" /\ machine.kind = "NFSM"
    /\ HasEpsilonCycle(machine)
    /\ uid_max > 2

\* C3: run_with on any machine of the three kinds ends by returning Accept
\* or Reject
RunWithReturnsVerdict ==
    (mode = "run_with" /\ pc = "done") =>
        (result.tag = "verdict" /\ result.verdict \in {"ACCEPT", "REJECT"})


----------------------------------------------------------------------------
(* Properties of the operations *)

\* the words of the model over an alphabet
WordsOver(alphabet) == {w \in Words : \A i \in DOMAIN w : w[i] \in alphabet}

\* the words of the model that M accepts when run
Language(M) == {w \in Words : Run(M, w)}

RECURSIVE InStar(_, _)
\* w is a concatenation of zero or more words of the language L
InStar(L, w) ==
    \/ w = <<>>
    \/ \E i \in 1..Len(w) :
           SubSeq(w, 1, i) \in L /\ InStar(L, SubSeq(w, i + 1, Len(w)))

\* C4: to_dfsm returns a machine that accepts a word over the alphabet iff
\* the nondeterministic machine does, and whose initial state is accepting
\* iff the epsilon-closure of q0 meets F
ToDfsmPreservesLanguage ==
    op = "to_dfsm" =>
        /\ R # Hang
        /\ \A w \in WordsOver(A.alphabet) : Run(R, w) = Run(A, w)
        /\ R.start \in R.accepting <=>
               GetEpsilonClosure(A, A.start) \cap A.accepting # {}

\* C5: A | B accepts a word iff A or B does
UnionAcceptsEither ==
    op = "union" => \A w \in Words : Run(R, w) <=> (Run(A, w) \/ Run(B, w))

\* C6: A + B accepts a word iff it splits into a word of A and a word of B
ConcatAcceptsSplits ==
    op = "concat" =>
        \A w \in Words :
            Run(R, w) <=> \E i \in 0..Len(w) :
                              /\ Run(A, SubSeq(w, 1, i))
                              /\ Run(B, SubSeq(w, i + 1, Len(w)))

\* C7: kleene_star(A) accepts the empty word, and accepts a word iff it is
\* a concatenation of zero or more words each accepted by A
KleeneStarAcceptsSegments ==
    op = "kleene_star" =>
        /\ Run(R, <<>>)
        /\ LET L == Language(A)
           IN  \A w \in Words : Run(R, w) <=> InStar(L, w)

\* a star was built that accepts a word of two or more segments, of a
\* machine with an epsilon edge
KleeneStarOfSegments ==
    /\ op = "kleene_star"
    /\ \E k \in DOMAIN A.transitions : k[2] = EPSILON
    /\ \E w \in Words : Len(w) >= 2 /\ ~Run(A, w) /\ Run(R, w)

\* C8: the complement of A accepts a word over the alphabet of A iff A
\* does not
ComplementFlipsAcceptance ==
    op = "complement" =>
        /\ R # Hang
        /\ \A w \in WordsOver(A.alphabet) : Run(R, w) <=> ~Run(A, w)

\* C9: A & B accepts a word over the two alphabets iff A and B both do
IntersectionAcceptsBoth ==
    op = "intersection" =>
        /\ R # Hang
        /\ \A w \in WordsOver(A.alphabet \cup B.alphabet) :
               Run(R, w) <=> (Run(A, w) /\ Run(B, w))

\* C10: simplify(A) accepts a word iff A does
SimplifyPreservesLanguage ==
    op = "simplify" =>
        /\ R # Hang
        /\ \A w \in Words : Run(R, w) = Run(A, w)

\* C11: make_total(A) has an edge for every pair of a state and a symbol of
\* the alphabet, the state it added loops to itself on every symbol, and it
\* accepts a word iff A does
MakeTotalIsTotal ==
    op = "make_total" =>
        /\ IsTotal(R)
        /\ \A q \in R.states \ A.states : \A symbol \in R.alphabet :
               R.transitions[<<q, symbol>>] = {q}
        /\ \A w \in Words : Run(R, w) = Run(A, w)

\* a machine that lacked an edge was made total, and a word it rejects for
\* want of an edge is rejected in the trash state
MakeTotalAddedTrash ==
    /\ op = "make_total"
    /\ R.states # A.states
    /\ A.accepting # {}
    /\ \E w \in Words : Len(w) = MaxWordLen /\ ~Run(R, w)
    /\ \E w \in Words : w # <<>> /\ Run(R, w)

\* the words of RegexWords the machine M accepts
RegexLanguage(M) == {w \in RegexWords : Run(M, w)}

\* C13: '*' binds tighter than concatenation and '|' binds loosest: the
\* machine compiled from 'ab*' accepts exactly the words a, ab, abb, ..., the
\* machine compiled from 'ab|c' accepts exactly ab and c, and the machine
\* compiled from 'a|bc' accepts exactly a and bc.
UnionBindsLoosest ==
    op = "compile_regex" =>
        /\ pattern = <<"a", "b", "*">> =>
               RegexLanguage(R) =
                   {w \in RegexWords :
                       /\ w # <<>> /\ w[1] = "a"
                       /\ \A i \in 2..Len(w) : w[i] = "b"}
        /\ pattern = <<"a", "b", "|", "c">> =>
               RegexLanguage(R) = {<<"a", "b">>, <<"c">>}
        /\ pattern = <<"a", "|", "b", "c">> =>
               RegexLanguage(R) = {<<"a">>, <<"b", "c">>}

\* the word w belongs to the regular language the scenario pattern p denotes
Denotes(p, w) ==
    IF p = <<"a">> THEN w = <<"a">>
    ELSE IF p = <<"a", "b">> THEN w = <<"a", "b">>
    ELSE IF p = <<"a", "*">> THEN \A i \in DOMAIN w : w[i] = "a"
    ELSE IF p = <<"a", "|", "b">> THEN w \in {<<"a">>, <<"b">>}
    ELSE IF p = <<"(", "a", "|", "b", ")", "*">>
    THEN \A i \in DOMAIN w : w[i] \in {"a", "b"}
    ELSE IF p = <<"(", "a", "b", ")", "*">>
    THEN /\ Len(w) % 2 = 0
         /\ \A i \in DOMAIN w : w[i] = (IF i % 2 = 1 THEN "a" ELSE "b")
    ELSE FALSE

\* the patterns Denotes describes
DenotedPatterns ==
    {<<"a">>, <<"a", "b">>, <<"a", "*">>, <<"a", "|", "b">>,
     <<"(", "a", "|", "b", ")", "*">>, <<"(", "a", "b", ")", "*">>}

\* C14: for each of the patterns 'a', 'ab', 'a*', 'a|b', '(a|b)*', '(ab)*'
\* and every word w over {a, b, c} of at most MaxRegexWordLen symbols, the
\* machine compile_regex returns accepts w exactly when w belongs to the
\* language the pattern denotes.
ScenarioPatternsMatchTheirLanguage ==
    (op = "compile_regex" /\ pattern \in DenotedPatterns) =>
        /\ parsed.error = ""
        /\ \A w \in RegexWords : Run(R, w) = Denotes(pattern, w)

\* compile_regex('(ab)*') returned a machine that accepts abab and rejects aba
CompiledStarOfGroup ==
    /\ op = "compile_regex"
    /\ pattern = <<"(", "a", "b", ")", "*">>
    /\ Run(R, <<"a", "b", "a", "b">>)
    /\ ~Run(R, <<"a", "b", "a">>)

RECURSIVE ParenScan(_, _, _)
\* a left-to-right reading of the pattern p from position i at nesting depth
\* depth, a backslash taking the next character with it: the depth at the end
\* (-1 when a ')' closes nothing) and whether a backslash is the last
\* character read
ParenScan(p, i, depth) ==
    IF i > Len(p) THEN [depth |-> depth, escape |-> FALSE]
    ELSE IF p[i] = "\\"
    THEN IF i = Len(p) THEN [depth |-> depth, escape |-> TRUE]
         ELSE ParenScan(p, i + 2, depth)
    ELSE IF p[i] = "(" THEN ParenScan(p, i + 1, depth + 1)
    ELSE IF p[i] = ")"
    THEN IF depth = 0 THEN [depth |-> -1, escape |-> FALSE]
         ELSE ParenScan(p, i + 1, depth - 1)
    ELSE ParenScan(p, i + 1, depth)

\* every '(' of p has its ')' and every ')' its '('
BalancedParentheses(p) == ParenScan(p, 1, 0).depth = 0

\* p ends in a backslash that escapes nothing
DanglingEscape(p) == ParenScan(p, 1, 0).escape

\* the words the degenerate patterns denote when a missing operand stands for
\* the empty word
DegenerateLanguage(p) ==
    IF p \in {<<"a", "|">>, <<"|", "a">>, <<"a", "|", "*">>}
    THEN {<<>>, <<"a">>}
    ELSE {<<>>}

\* the degenerate patterns DegenerateLanguage describes
DegeneratePatterns ==
    {<<"a", "|">>, <<"|", "a">>, <<"a", "|", "*">>, <<"|", "|">>, <<"|">>,
     <<"*">>, <<"(", ")">>, <<>>}

\* C15 as stated: for every pattern with balanced parentheses parse_regex
\* returns a tree, and the machine of a degenerate pattern takes the missing
\* operand for the empty word.
BalancedPatternsParse ==
    (op \in {"parse_regex", "compile_regex"}
        /\ BalancedParentheses(pattern)) =>
        /\ parsed.error = ""
        /\ (op = "compile_regex" /\ pattern \in DegeneratePatterns) =>
               RegexLanguage(R) = DegenerateLanguage(pattern)

\* C15, amended: for every pattern with balanced parentheses that does not
\* end in a backslash escaping nothing, parse_regex returns a tree (no
\* operand is popped from an empty stack), and the machine compiled from a
\* degenerate pattern ('a|', '|a', 'a|*', '||', '|', '*', '()', '') takes the
\* missing operand for the empty word.
WellFormedPatternsParse ==
    (op \in {"parse_regex", "compile_regex"}
        /\ BalancedParentheses(pattern) /\ ~DanglingEscape(pattern)) =>
        /\ parsed.error = ""
        /\ (op = "compile_regex" /\ pattern \in DegeneratePatterns) =>
               RegexLanguage(R) = DegenerateLanguage(pattern)

\* compile_regex('a|') returned a machine that accepts the empty word and a
CompiledEmptyAlternative ==
    /\ op = "compile_regex"
    /\ pattern = <<"a", "|">>
    /\ parsed.error = ""
    /\ parsed.tree.type = "UNION"
    /\ parsed.tree.children[2] = Leaf(EPSILON)
    /\ Run(R, <<>>) /\ Run(R, <<"a">>)

\* C16: a pattern with an unmatched ')' or with the end of input inside an
\* open group makes parse_regex and compile_regex fail with ValueError, and
\* neither a tree nor a machine is returned.
MalformedPatternsRaiseValueError ==
    (op \in {"parse_regex", "compile_regex"}
        /\ ~BalancedParentheses(pattern)) =>
        /\ parsed.error = "ValueError"
        /\ parsed.tree = <<>>
        /\ op = "compile_regex" => R = NoMachine

\* C12: for every pattern r, the machine compiled from the string that
\* to_regex returns for to_dfsm(compile_regex(r)) accepts exactly the words
\* compile_regex(r) accepts.
RoundTripPreservesLanguage ==
    op = "recompile" =>
        /\ B # NoMachine
        /\ RegexLanguage(B) = RegexLanguage(R)

\* the offsets k at which some configuration reachable from the initial one
\* has read k symbols of w and is in an accepting state
AcceptingOffsets(M, w) ==
    {c[1] : c \in {x \in Reach(M, w, {<<0, M.start>>}) : x[2] \in M.accepting}}

\* C17: on a DFSM or NFSM, find_first returns a match exactly when some
\* configuration reachable from the initial one is in an accepting state, that
\* is when some prefix of the word is accepted; the match is then the prefix
\* read by such a configuration.
FindFirstFindsAcceptingConfig ==
    (mode = "find_first" /\ pc = "done" /\ machine.kind \in {"DFSM", "NFSM"}) =>
        /\ result.tag = "matches"
        /\ IF AcceptingOffsets(machine, word) = {}
           THEN result.matches = <<>>
           ELSE /\ result.matches # <<>>
                /\ result.matches[1].stop \in AcceptingOffsets(machine, word)
                /\ result.matches[1] =
                       [start |-> 0, stop |-> result.matches[1].stop,
                        string |-> SubSeq(word, 1, result.matches[1].stop)]

\* C18: on a DFSM or NFSM, the match find_last returns stops at the largest
\* offset at which a configuration popped during the call was in an accepting
\* state, and find_last returns no match only when no popped configuration
\* was accepting.
FindLastReturnsLongest ==
    (mode = "find_last" /\ pc = "done" /\ machine.kind \in {"DFSM", "NFSM"}) =>
        /\ result.tag = "matches"
        /\ IF longest = -1 THEN result.matches = <<>>
           ELSE /\ result.matches # <<>>
                /\ result.matches[1].stop = longest

\* C19: on a DFSM or NFSM, run_with returns the verdict that the machine and
\* the word determine (Accept exactly when a path of the machine reads the
\* word and ends in an accepting state), whatever calls were made on the
\* runner before and in whatever order the successors were enumerated, and no
\* step of a call changes the machine.
RunIsDeterministicAndPure ==
    /\ [](  (mode = "run_with" /\ pc = "done"
               /\ machine.kind \in {"DFSM", "NFSM"}) =>
            result = Verdict(FromBool(Accepts(machine, word))))
    /\ [][machine' = machine]_vars

\* the last of MaxCalls calls on the runner of an NFSM was run_with on a word
\* that is not empty, and has returned Accept
SecondRunAccepted ==
    /\ calls = MaxCalls
    /\ mode = "run_with" /\ pc = "done"
    /\ machine.kind = "NFSM"
    /\ result = Verdict("ACCEPT")
    /\ word # <<>>

\* M has one initial state that no edge enters and one accepting state that
\* no edge leaves, whatever the symbol of the edge
IsNormalForm(M) ==
    /\ M.start \in M.states
    /\ \A k \in DOMAIN M.transitions : M.start \notin M.transitions[k]
    /\ Cardinality(M.accepting) = 1
    /\ M.accepting \subseteq M.states
    /\ \A k \in DOMAIN M.transitions :
           k[1] \in M.accepting => M.transitions[k] = {}

\* C20: to_normal_form(A) is in normal form (one initial state without an
\* incoming edge, one accepting state without an outgoing edge) and accepts
\* the words A accepts; the machines concat, union and kleene_star return are
\* in normal form.
NormalFormIsEstablished ==
    /\ op = "to_normal_form" =>
           /\ IsNormalForm(R)
           /\ \A w \in Words : Run(R, w) = Run(A, w)
    /\ op \in {"concat", "union", "kleene_star"} => IsNormalForm(R)

\* the matches a call that has returned handed to its caller, each with the
\* source string the caller passed: those of a find_* method called by the
\* caller, and those of a search_* method
ReturnedMatches ==
    IF search.method = ""
    THEN IF pc = "done" /\ mode # "run_with"
         THEN {<<result.matches[i], word>> : i \in DOMAIN result.matches}
         ELSE {}
    ELSE {<<search.result.matches[i], search.string>> :
             i \in DOMAIN search.result.matches}

\* C22: every Match returned by find_first, find_last, find_all and by the
\* five search_* methods on a source string s satisfies
\* 0 <= start <= stop <= |s|.
MatchOffsetsAreInBounds ==
    \A m \in ReturnedMatches :
        /\ 0 <= m[1].start
        /\ m[1].start <= m[1].stop
        /\ m[1].stop <= Len(m[2])

\* a search_* method returned a match that starts after the first symbol of
\* the source string and stops at its end
SearchMatchedSuffix ==
    /\ search.method # ""
    /\ \E i \in DOMAIN search.result.matches :
           /\ search.result.matches[i].start > 0
           /\ search.result.matches[i].stop = Len(search.string)

\* C23: every Match returned by the find_* and the search_* methods on a
\* source string s records the matched substring: its string field equals
\* s[start:stop].
MatchRecordsSubstring ==
    \A m \in ReturnedMatches :
        m[1].string = SubSeq(m[2], m[1].start + 1, m[1].stop)

\* C28: in every run a successor is enqueued only if it is not in the
\* seen-set of its parent, every enqueued item has a precursor ID of its own
\* that no other item of the run has, and its seen-set is the seen-set of its
\* parent plus its configuration; no configuration, the initial one included,
\* is processed twice along one lineage: no lineage comes back to the initial
\* configuration, with which every lineage starts.
LineagesNeverRevisit ==
    pc = "loop" =>
        /\ \A i \in DOMAIN backlog :
               /\ backlog[i][1] < uid_max
               /\ \A j \in DOMAIN backlog : backlog[i][1] = backlog[j][1] => i = j
        /\ \A i \in DOMAIN backlog :
               backlog[i][1] # 0 =>
                   \E parent \in 0..(backlog[i][1] - 1) :
                       /\ backlog[i][2] \notin SeenAt(seen, parent)
                       /\ SeenAt(seen, backlog[i][1]) =
                              SeenAt(seen, parent) \cup {backlog[i][2]}
        /\ \A uid \in DOMAIN seen :
               GetInitialConfig(machine, word) \notin seen[uid]

\* C29: the machine simplify returns has no transition into a state that
\* simplify removed: every target of its transition map is one of its states.
SimplifyDropsDanglingEdges ==
    (op = "simplify" /\ R # Hang) =>
        \A k \in DOMAIN R.transitions : R.transitions[k] \subseteq R.states

\* C30: the alphabet of the machine compile_regex returns for an accepted
\* pattern, a pattern with an empty alternative or another epsilon leaf
\* included, does not contain the epsilon symbol.
CompiledAlphabetExcludesEpsilon ==
    (op = "compile_regex" /\ parsed.error = "") => EPSILON \notin R.alphabet

\* M is the canonical machine of the empty language: one state, which is
\* initial and not accepting, and no transition
IsEmptyMachine(M) ==
    /\ Cardinality(M.states) = 1
    /\ M.start \in M.states
    /\ M.transitions = <<>>
    /\ M.accepting = {}

\* C24: simplify is idempotent: for every machine A, simplify(A) returns and
\* simplify(simplify(A)) has the same states, transitions, initial state and
\* accepting set as simplify(A), up to the identity of the fresh state of the
\* canonical empty machine.
SimplifyIsIdempotent ==
    /\ op = "simplify" => R # Hang
    /\ op = "simplify_again" =>
           \/ B = R
           \/ /\ IsEmptyMachine(R) /\ IsEmptyMachine(B)
              /\ B.kind = R.kind /\ B.alphabet = R.alphabet

\* C25: to_normal_form applied to a machine already in normal form adds no
\* state and no transition and returns a machine with the same states,
\* transitions, initial state and accepting set; to_normal_form applied to
\* the result of to_normal_form returns a machine equal to that result.
NormalisationIsIdempotent ==
    /\ (op = "to_normal_form" /\ IsNormalForm(A)) => R = A
    /\ op = "to_normal_form_again" => (IsNormalForm(R) /\ B = R)

\* a machine with an edge into its initial state and two accepting states
\* was normalised, which added two states, and normalised again
NormalisedTwice ==
    /\ op = "to_normal_form_again"
    /\ Cardinality(A.accepting) = 2
    /\ Cardinality(R.states) = Cardinality(A.states) + 2
    /\ B = R

\* the words of at most MaxWordLen + 1 letters, which tell the languages of
\* two operands of the model apart whenever they differ
LongWords == UNION {[1..n -> Letters] : n \in 0..(MaxWordLen + 1)}

\* every word M accepts is accepted by N
Included(M, N) == \A w \in LongWords : Accepts(M, w) => Accepts(N, w)

\* C26: A <= B returns True iff every word accepted by A is accepted by B,
\* whether or not the alphabets of A and B differ.
IsSubsetDecidesInclusion ==
    op = "is_subset" => result = Value(Included(A, B))

\* C27: A == B returns True iff A and B accept the same words, and A != B
\* returns the opposite; A == A is True and A != A is False.
EqualityIsLanguageEquality ==
    /\ op = "eq" => result = Value(Included(A, B) /\ Included(B, A))
    /\ op = "ne" => result = Value(~(Included(A, B) /\ Included(B, A)))

\* C21: concat, union, kleene_star, intersection, complement, to_normal_form,
\* to_dfsm, make_total, simplify and to_regex leave the state set, alphabet,
\* transition map, initial state and accepting set of every operand as they
\* were, after any sequence of calls.
OperandsAreImmutable == [][A' = A /\ B' = B]_vars

\* to_normal_form was called on an operand and wrote into its working dict:
\* the transition map it returned is that of neither operand
NormalisedIntoCopy ==
    /\ op = "to_normal_form"
    /\ DOMAIN R.transitions # DOMAIN A.transitions
    /\ R.transitions # B.transitions
    /\ \E w \in ToNormalFormWrites("A", A, 2 * MaxStates) :
           w.object = "new" /\ w.entries = R.transitions

\* a superstate that has a DFSM state keeps it
SupersetsKeepTheirState ==
    \A k \in DOMAIN to_dfsm.supersets :
        /\ k \in DOMAIN to_dfsm'.supersets
        /\ to_dfsm'.supersets[k] = to_dfsm.supersets[k]

\* a recorded transition keeps its target
TransitionsKeepTheirTarget ==
    \A k \in DOMAIN to_dfsm.transitions :
        /\ k \in DOMAIN to_dfsm'.transitions
        /\ to_dfsm'.transitions[k] = to_dfsm.transitions[k]

\* two superstates that are the same set of NFSM states have the same DFSM
\* state
OneStatePerSetOfStates ==
    \A k1, k2 \in DOMAIN to_dfsm.supersets :
        Range(k1) = Range(k2) => to_dfsm.supersets[k1] = to_dfsm.supersets[k2]

\* C31: during the worklist run of to_dfsm a superstate that has a DFSM state
\* is never given another one, two discoveries of the same set of NFSM states
\* yield the same DFSM state, and a recorded transition (S, a) is never
\* overwritten with another target.
SuperstatesAreStable ==
    /\ []OneStatePerSetOfStates
    /\ [][SupersetsKeepTheirState /\ TransitionsKeepTheirTarget]_vars

----------------------------------------------------------------------------
(* to_dfsm on every compiled machine, those with an epsilon leaf included *)

\* the patterns compiled and determinised: every pattern of at most
\* MaxRoundTripLen literals, unions, stars and parentheses
DeterminisedPatterns ==
    UNION {[1..n -> RegexChars \ {"\\"}] : n \in 0..MaxRoundTripLen}

\* a caller has a pattern to compile and to determinise
InitDeterminise ==
    /\ pattern \in DeterminisedPatterns
    /\ parsed = NoParse
    /\ regex = <<>>
    /\ A = NoMachine /\ B = NoMachine /\ R = NoMachine
    /\ op = ""
    /\ next_uid = 0
    /\ to_dfsm = NoToDfsm
    /\ RunnerUnused

NextDeterminise == CompileRegexOp \/ CompiledToDfsmOp

SpecDeterminise == InitDeterminise /\ [][NextDeterminise]_vars

\* C32: for every NFSM compile_regex builds with the closure operations,
\* to_dfsm returns a deterministic machine: every (state, symbol) key of its
\* transition map has at most one target state and no key has the epsilon
\* symbol.
ToDfsmIsDeterministic ==
    (op = "to_dfsm" /\ A # Hang) =>
        \A k \in DOMAIN A.transitions :
            /\ Cardinality(A.transitions[k]) <= 1
            /\ k[2] # EPSILON

\* no key of the machine to_dfsm returns has two targets
ToDfsmHasOneTargetPerKey ==
    (op = "to_dfsm" /\ A # Hang) =>
        \A k \in DOMAIN A.transitions : Cardinality(A.transitions[k]) <= 1

\* to_dfsm returned a machine for a pattern with an empty alternative
DeterminisedEmptyAlternative ==
    /\ op = "to_dfsm" /\ A # Hang
    /\ pattern = <<"a", "|">>

----------------------------------------------------------------------------
(* Machines built by sequences of operations *)

\* the machine the caller has built so far: the operand A, then what the
\* last call returned
Built == IF R = NoMachine THEN A ELSE R

\* NeFSM.from_dfsm(M) for a DFSM, M itself for a NeFSM
AsNeFSM(M) == IF M.kind = "DFSM" THEN FromDfsm(M) ELSE M

\* the second operands of concat and union: the machine built so far, the
\* operand A and a machine atom_matcher makes
BuildOthers ==
    {Built, A} \cup {AtomMatcher(symbol, next_uid) : symbol \in {"a", EPSILON}}

\* the call named name returned m, or never returns
BuildStep(name, m) ==
    /\ next_uid < MaxBuildUid
    /\ R # Hang
    /\ op' = name
    /\ R' = m
    /\ next_uid' = UidAfter(m, next_uid)
    /\ UNCHANGED <<A, B, to_dfsm>>
    /\ UNCHANGED runner_vars
    /\ UNCHANGED regex_vars

\* NeFSM.atom_matcher(symbol)
BuildAtomMatcher ==
    \E symbol \in Letters \cup {EPSILON} :
        \E m \in {AtomMatcher(symbol, next_uid)} :
            BuildStep("atom_matcher", m)

\* self.concat(other), self + other
BuildConcat ==
    \E other \in BuildOthers :
        \E m \in {Concat(AsNeFSM(Built), AsNeFSM(other),
                         UidAfter(other, next_uid))} :
            BuildStep("concat", m)

\* self.union(other), self | other
BuildUnion ==
    \E other \in BuildOthers :
        \E m \in {Union(AsNeFSM(Built), AsNeFSM(other),
                        UidAfter(other, next_uid))} :
            BuildStep("union", m)

\* self.kleene_star()
BuildKleeneStar ==
    \E m \in {KleeneStar(AsNeFSM(Built), next_uid)} :
        BuildStep("kleene_star", m)

\* self.to_normal_form()
BuildToNormalForm ==
    \E m \in {ToNormalForm(AsNeFSM(Built), next_uid)} :
        BuildStep("to_normal_form", m)

\* self.to_dfsm()
BuildToDfsm ==
    \E desc \in SUBSET Built.alphabet :
        \E m \in {ToDfsm(AsNeFSM(Built), next_uid, desc)} :
            BuildStep("to_dfsm", m)

\* self.make_total()
BuildMakeTotal ==
    \E m \in {MakeTotal(Built, next_uid)} : BuildStep("make_total", m)

\* self.complement(), ~self
BuildComplement ==
    \E desc \in SUBSET Built.alphabet :
        \E m \in {Complement(Built, next_uid, desc)} :
            BuildStep("complement", m)

\* a caller has constructed the machine A
InitBuild ==
    /\ A \in BinaryOperands
    /\ B = NoMachine
    /\ R = NoMachine
    /\ op = ""
    /\ next_uid = MaxStates
    /\ to_dfsm = NoToDfsm
    /\ RunnerUnused
    /\ RegexUnused

NextBuild ==
    \/ BuildAtomMatcher
    \/ BuildConcat
    \/ BuildUnion
    \/ BuildKleeneStar
    \/ BuildToNormalForm
    \/ BuildToDfsm
    \/ BuildMakeTotal
    \/ BuildComplement

SpecBuild == InitBuild /\ [][NextBuild]_vars

\* the initial state, the accepting states and the states of the transition
\* map of M are states of M, and the letters of its transition map are in its
\* alphabet
IsWellFormed(M) ==
    /\ M.start \in M.states
    /\ M.accepting \subseteq M.states
    /\ \A k \in DOMAIN M.transitions :
           /\ k[1] \in M.states
           /\ M.transitions[k] \subseteq M.states
           /\ k[2] # EPSILON => k[2] \in M.alphabet

\* C33: every machine built from well-formed operands by a sequence of
\* atom_matcher, concat, union, kleene_star, to_normal_form, to_dfsm,
\* make_total and complement has its initial state, its accepting states
\* and the source and target states of its transitions in its state set, and
\* every non-epsilon symbol of its transitions in its alphabet.
BuiltMachinesAreWellFormed ==
    /\ IsWellFormed(A)
    /\ R \notin {NoMachine, Hang} => IsWellFormed(R)

\* a complement was built in several calls from a machine with an epsilon
\* edge: it has states none of which is a state of the operand
BuiltInSeveralCalls ==
    /\ op = "complement"
    /\ R \notin {NoMachine, Hang}
    /\ \E k \in DOMAIN A.transitions : k[2] = EPSILON
    /\ R.states \cap A.states = {}
    /\ Cardinality(R.states) >= 3

\* the offset at which the find_* call of the search s runs on the word w
OffsetOf(s, w) == Len(s.string) - Len(w)

\* a step in which search_first or search_last calls its find_* method
SweepCalls ==
    /\ search'.method \in {"search_first", "search_last"}
    /\ search'.result = Pending
    /\ calls' # calls

\* search_first and search_last call their find_* method on the rest of the
\* string: first at offset 0 (search_first) or at the last offset
\* (search_last), then, after a call that found nothing, at the offset one
\* higher (search_first) or one lower (search_last)
SweepIsMonotonic ==
    SweepCalls =>
        /\ mode' = IF search'.method = "search_first" THEN "find_first"
                   ELSE "find_last"
        /\ OffsetOf(search', word') \in 0..(Len(search'.string) - 1)
        /\ word' = SubSeq(search'.string, OffsetOf(search', word') + 1,
                          Len(search'.string))
        /\ IF search.method = ""
           THEN OffsetOf(search', word') =
                    IF search'.method = "search_first" THEN 0
                    ELSE Len(search'.string) - 1
           ELSE /\ result = Found(<<>>)
                /\ OffsetOf(search', word') =
                       IF search.method = "search_first"
                       THEN OffsetOf(search, word) + 1
                       ELSE OffsetOf(search, word) - 1

\* search_first and search_last return the match of the find_* call that
\* found one, moved by the offset of the call, and None after the call at
\* the last offset of the sweep found nothing
SweepReturnsFirstHit ==
    (/\ search.method \in {"search_first", "search_last"}
     /\ search.result = Pending
     /\ search'.result.tag = "matches") =>
        IF result.matches = <<>>
        THEN /\ search'.result = Found(<<>>)
             /\ OffsetOf(search, word) =
                    IF search.method = "search_first"
                    THEN Len(search.string) - 1 ELSE 0
        ELSE /\ Len(search'.result.matches) = 1
             /\ search'.result.matches[1].start =
                    result.matches[1].start + OffsetOf(search, word)
             /\ search'.result.matches[1].stop =
                    result.matches[1].stop + OffsetOf(search, word)

\* an iteration of the loop of a find_* method takes the item at the head of
\* the backlog and leaves the other items in their order, new items behind
\* them
BacklogIsFifo ==
    (pc = "loop" /\ pc' = "loop" /\ calls' = calls) =>
        /\ Len(backlog') >= Len(backlog) - 1
        /\ SubSeq(backlog', 1, Len(backlog) - 1) = Tail(backlog)
        /\ \A i \in Len(backlog)..Len(backlog') : backlog'[i][1] >= uid_max

\* the items of the backlog are in the order in which they were enqueued
BacklogInEnqueueOrder ==
    \A i, j \in DOMAIN backlog : i < j => backlog[i][1] < backlog[j][1]

\* C34: search_first tries the offsets 0, 1, ..., |s|-1 in ascending order
\* and returns the find_first result of the first offset that yields a
\* match, shifted by that offset; search_last tries the offsets in descending
\* order and returns the find_last result of the first offset that yields
\* one; the work items of every find are processed in the order in which
\* they were enqueued.
SearchSweepsInOrder ==
    /\ []BacklogInEnqueueOrder
    /\ [][SweepIsMonotonic /\ SweepReturnsFirstHit /\ BacklogIsFifo]_vars

\* search_first or search_last returned a match that its find_* call found at
\* the second offset of the sweep over a string of two letters
SweptToSecondOffset ==
    /\ search.method \in {"search_first", "search_last"}
    /\ search.result.tag = "matches"
    /\ Len(search.string) = 2
    /\ search.result.matches # <<>>
    /\ OffsetOf(search, word) = IF search.method = "search_first" THEN 1 ELSE 0

\* C35: search_shortest(s) returns a match of minimal length among the
\* substrings s[i:j] the machine accepts: whenever the machine accepts some
\* s[i:j] at an offset i of the sweep, a match is returned and it is not
\* longer than j - i.
SearchShortestIsMinimal ==
    (/\ search.method = "search_shortest"
     /\ search.result.tag = "matches"
     /\ machine.kind \in {"NFSM", "DFSM"}) =>
        \A i \in 0..(Len(search.string) - 1) :
            \A j \in i..Len(search.string) :
                Accepts(machine, SubSeq(search.string, i + 1, j)) =>
                    /\ search.result.matches # <<>>
                    /\ search.result.matches[1].stop
                           - search.result.matches[1].start <= j - i

\* C36: search_first(s) returns a match whenever the machine accepts some
\* substring of s, the empty substring at any offset 0..|s| included; for a
\* machine that accepts the empty word it returns a match for every s, the
\* empty string included.
SearchFirstFindsAcceptedSubstring ==
    (/\ search.method = "search_first"
     /\ search.result.tag = "matches"
     /\ machine.kind \in {"NFSM", "DFSM"}) =>
        ((\E i \in 0..Len(search.string) : \E j \in i..Len(search.string) :
              Accepts(machine, SubSeq(search.string, i + 1, j)))
            => search.result.matches # <<>>)

\* on a deterministic machine search_first returns a match whenever the
\* machine accepts a substring of a string that is not empty
SearchFirstFindsOnDeterministic ==
    (machine.kind = "DFSM" /\ search.string # <<>>) =>
        SearchFirstFindsAcceptedSubstring

RECURSIVE FindFirstLoop(_, _, _)
\* the loop of Runner.find_first from the run state rs: what the call
\* returns, for every order in which the target sets can be enumerated
FindFirstLoop(M, w, rs) ==
    IF rs.backlog = <<>> THEN {Found(<<>>)}
    ELSE LET precursor == Head(rs.backlog)[1]
             current == Head(rs.backlog)[2]
             state == CheckAcceptSliding(M, current)
             end_check == CheckAccept(M, current)
             match == <<MakeMatch(w, current)>>
             popped == [rs EXCEPT !.backlog = Tail(rs.backlog)]
         IN  IF end_check # "CONTINUE"
             THEN {Found(IF end_check = "ACCEPT" THEN match ELSE <<>>)}
             ELSE IF state = "ACCEPT" THEN {Found(match)}
             ELSE UNION {IF o.raised THEN {Raised("ValueError")}
                         ELSE FindFirstLoop(M, w, o.rs) :
                            o \in Advance(M, popped, current, precursor)}

\* Runner.find_first: the results of the runs on M and w that differ in the
\* enumeration order of the successor sets
FindFirst(M, w) == FindFirstLoop(M, w, SetupRun(M, w))

\* two results of find_first are both a match with the same stop offset, or
\* both no match
SameStop(r1, r2) ==
    /\ r1.tag = r2.tag
    /\ Len(r1.matches) = Len(r2.matches)
    /\ \A i \in DOMAIN r1.matches : r1.matches[i].stop = r2.matches[i].stop

\* C37: the result of find_first(w) on an NFSM does not depend on the order
\* in which the target states of a transition are enumerated: every other
\* run on the same machine and word returns a match with the same stop
\* offset as this run, or no match like this run.
FindFirstIgnoresEnumerationOrder ==
    (machine.kind = "NFSM" /\ mode = "find_first" /\ pc = "done") =>
        \A other \in FindFirst(machine, word) : SameStop(other, result)

\* every find_first call of the state machine returns one of the results of
\* the runs over all enumeration orders
FindFirstIsOneOfTheRuns ==
    (mode = "find_first" /\ pc = "done") => result \in FindFirst(machine, word)


====
